---- MODULE Spec2Model ----
(***************************************************************************)
(* Verification model of the visulyn simulators: the simulated-annealing   *)
(* engines (TSP tour search in utils/simulatedAnnealing.ts, bitstring /    *)
(* polynomial search in utils/simulatedAnnealingToy.ts) and the React      *)
(* pages that drive them (pages/Simulator, pages/SimulatedAnnealingToy).   *)
(*                                                                         *)
(* Numbers.  Math.random() is a draw d in 0..RandDen-1 standing for the    *)
(* value d/RandDen in [0,1).  Temperatures and probabilities are exact     *)
(* rationals [n |-> numerator, d |-> denominator].  City coordinates are   *)
(* integers chosen so that every Euclidean distance is an integer.         *)
(***************************************************************************)
EXTENDS Integers, Sequences, FiniteSets, TLC

(***************************************************************************)
(* Bounds of the model.                                                    *)
(***************************************************************************)
\* resolution of one Math.random() draw
RandDen == 3
\* largest iteration budget (maxIterations / totalIterations) a run is given
MaxIter == 2
\* largest number of cities on the canvas
MaxCities == 4
\* largest number of Math.random() draws one toy step may consume
MaxStepDraws == 4
\* number of draws on the tape a batch run is replayed on
TapeLen == 5
\* largest number of edits (parameters, speed, clear, generate) in one session
MaxEdits == 1
\* largest sample size of a batch resample
MaxSamples == 2
\* largest number of animated samples whose timers are pending at once
MaxAnimations == 1
\* the same, in the specification of overlapping animations
MaxOverlap == 2
\* largest weight, and largest number of outcomes, of the table harness
MaxWeight == 2
MaxOutcomes == 3
\* largest bit-width of the encoding harness
MaxWidth == 2

(***************************************************************************)
(* Arithmetic helpers.                                                     *)
(***************************************************************************)
Min(a, b) == IF a <= b THEN a ELSE b
Max(a, b) == IF a >= b THEN a ELSE b
Abs(a) == IF a < 0 THEN -a ELSE a

RECURSIVE Pow(_, _)
\* Math.pow(b, e) for a natural exponent; Math.pow(0, 0) = 1
Pow(b, e) == IF e <= 0 THEN 1 ELSE b * Pow(b, e - 1)

Rat(n, d) == [n |-> n, d |-> d]
RatLess(a, b) == a.n * b.d < b.n * a.d
RatLeq(a, b) == a.n * b.d <= b.n * a.d
RatEq(a, b) == a.n * b.d = b.n * a.d
RatMul(a, b) == Rat(a.n * b.n, a.d * b.d)
RatMax(a, b) == IF RatLess(a, b) THEN b ELSE a

\* the values one Math.random() call can return
Draws == 0..(RandDen - 1)
\* Math.floor(Math.random() * n)
RandomInt(d, n) == (d * n) \div RandDen
\* Math.random() < p, p a rational
RandomLess(d, p) == d * p.d < p.n * RandDen

\* Euclid's algorithm, as a function so that each pass works on values
GcdOf[a \in Nat, b \in Nat] == IF b = 0 THEN a ELSE GcdOf[b, a % b]
Gcd(a, b) == GcdOf[a, b]

\* the same rational in lowest terms (d > 0)
LowestOf[n \in Int, d \in Nat] ==
    LET g == GcdOf[Abs(n), d] IN IF g = 0 THEN Rat(n, d) ELSE Rat(n \div g, d \div g)
Lowest(q) == LowestOf[q.n, q.d]

\* Math.exp(x) for x = -a/b <= 0 (a >= 0, b > 0): the rational
\* 1 / (1 + |x| + x^2/2).  It is 1 at x = 0, lies strictly between 0 and 1
\* for x < 0 and decreases to 0 as x -> -infinity, like exp.
ExpNegOf[n \in Int, d \in Nat] ==
    LowestOf[2 * d * d, 2 * d * d + 2 * n * d + n * n]
ExpNeg(a, b) == ExpNegOf[LowestOf[a, b].n, LowestOf[a, b].d]

\* Math.log(k) in hundredths, for the arguments a run can produce
LnCenti(k) ==
    CASE k <= 1 -> 0
      [] k = 2 -> 69
      [] k = 3 -> 110
      [] k = 4 -> 139
      [] k = 5 -> 161
      [] k = 6 -> 179
      [] OTHER -> 195

(***************************************************************************)
(* Toy engine: utils/simulatedAnnealingToy.ts                              *)
(***************************************************************************)
\* bestValue of getInitialToyState: -Infinity
NegInfinity == -1000000

RECURSIVE SumCoef(_, _, _)
SumCoef(n, coefficients, i) ==
    IF i > Len(coefficients) THEN 0
    ELSE coefficients[i] * Pow(n, i - 1) + SumCoef(n, coefficients, i + 1)

\* coefficients.reduce((sum, coef, i) => sum + coef * Math.pow(n, i), 0)
evaluatePolynomial(n, coefficients) == SumCoef(n, coefficients, 1)

RECURSIVE ToBinaryString(_)
\* n.toString(2) for n >= 0, as a sequence of digits
ToBinaryString(n) ==
    IF n < 2 THEN <<n>> ELSE ToBinaryString(n \div 2) \o <<n % 2>>

\* a padding on the right
PadEnd(s, r) ==
    IF Len(s) >= r THEN s ELSE s \o [i \in 1..(r - Len(s)) |-> 0]

\* s.padStart(r, '0'): pads on the left, never truncates
PadStart(s, r) ==
    IF Len(s) >= r THEN s ELSE [i \in 1..(r - Len(s)) |-> 0] \o s

\* The code computes `clamped` and then encodes n itself, not clamped.
intToBinaryArray(n, r) ==
    IF r <= 0 THEN <<>> ELSE PadStart(ToBinaryString(n), r)

RECURSIVE ParseBits(_, _)
ParseBits(bits, k) ==
    IF k = 0 THEN 0 ELSE 2 * ParseBits(bits, k - 1) + bits[k]

\* parseInt(binaryArray.join(''), 2)
binaryArrayToInt(binaryArray) ==
    IF Len(binaryArray) = 0 THEN 0 ELSE ParseBits(binaryArray, Len(binaryArray))

\* binaryArray[index] = 1 - binaryArray[index] (index is 0-based in the code)
FlipBit(binaryArray, index) ==
    [binaryArray EXCEPT ![index + 1] = 1 - binaryArray[index + 1]]

(* Every randomised function takes the tape of draws and the position of   *)
(* the next draw, and returns its value with the new position; ok is FALSE *)
(* when the tape ended before the function had the draws it asked for.     *)
Out(v, pos, ok) == [v |-> v, pos |-> pos, ok |-> ok]

singleBitFlipNeighbor(state, r, tape, pos) ==
    IF r <= 0 THEN Out(state, pos, TRUE)
    ELSE IF pos > Len(tape) THEN Out(state, pos, FALSE)
    ELSE LET binaryArray == intToBinaryArray(state, r)
             flipIndex == RandomInt(tape[pos], r)
         IN  Out(binaryArrayToInt(FlipBit(binaryArray, flipIndex)), pos + 1, TRUE)

\* a choice of two indices that takes the next two draws as they come
PickIndicesAny(indices, r, tape, pos) ==
    IF pos + 1 > Len(tape) THEN Out(indices, pos, FALSE)
    ELSE Out(<<RandomInt(tape[pos], r), RandomInt(tape[pos + 1], r)>>, pos + 2, TRUE)

RECURSIVE PickIndices(_, _, _, _)
\* while (indices.length < 2) { index = floor(random * r);
\*                              if (!indices.includes(index)) indices.push(index) }
PickIndices(indices, r, tape, pos) ==
    IF Len(indices) >= 2 THEN Out(indices, pos, TRUE)
    ELSE IF pos > Len(tape) THEN Out(indices, pos, FALSE)
    ELSE LET index == RandomInt(tape[pos], r)
         IN  IF \E k \in 1..Len(indices) : indices[k] = index
             THEN PickIndices(indices, r, tape, pos + 1)
             ELSE PickIndices(Append(indices, index), r, tape, pos + 1)

twoBitFlipNeighbor(state, r, tape, pos) ==
    IF r < 2 THEN Out(state, pos, TRUE)
    ELSE LET binaryArray == intToBinaryArray(state, r)
             picked == PickIndices(<<>>, r, tape, pos)
         IN  IF ~picked.ok THEN Out(state, picked.pos, FALSE)
             ELSE Out(binaryArrayToInt(
                        FlipBit(FlipBit(binaryArray, picked.v[1]), picked.v[2])),
                      picked.pos, TRUE)

randomWalkNeighbor(state, r, tape, pos) ==
    IF r <= 0 THEN Out(0, pos, TRUE)
    ELSE IF pos > Len(tape) THEN Out(state, pos, FALSE)
    ELSE Out(RandomInt(tape[pos], Pow(2, r)), pos + 1, TRUE)

generateNeighbor(state, r, neighborType, tape, pos) ==
    CASE neighborType = "Single Bit Flip" -> singleBitFlipNeighbor(state, r, tape, pos)
      [] neighborType = "Two Bit Flip" -> twoBitFlipNeighbor(state, r, tape, pos)
      [] neighborType = "Random Walk" -> randomWalkNeighbor(state, r, tape, pos)
      [] OTHER -> singleBitFlipNeighbor(state, r, tape, pos)

\* the floor 0.001 of the Linear and Logarithmic schedules
TempFloor == Rat(1, 1000)
\* temperature <= 1e-6, for a rational n/d with d > 0: n * 10^6 <= d
TempUnderflow(temperature) == temperature.n <= temperature.d \div 1000000

GeometricTemp(iteration, initialTemp, coolingRate) ==
    Rat(initialTemp.n * Pow(coolingRate.n, iteration),
        initialTemp.d * Pow(coolingRate.d, iteration))

calculateTemperature(iteration, initialTemp, coolingRate, maxIterations, coolingSchedule) ==
    CASE coolingSchedule = "Geometric" ->
            GeometricTemp(iteration, initialTemp, coolingRate)
      [] coolingSchedule = "Linear" ->
            \* initialTemp - (initialTemp / maxIterations) * iteration
            RatMax(Rat(initialTemp.n * (maxIterations - iteration),
                       initialTemp.d * maxIterations), TempFloor)
      [] coolingSchedule = "Logarithmic" ->
            \* initialTemp / (1 + Math.log(1 + iteration + 1))
            RatMax(Rat(initialTemp.n * 100,
                       initialTemp.d * (100 + LnCenti(1 + iteration + 1))), TempFloor)
      [] OTHER -> GeometricTemp(iteration, initialTemp, coolingRate)

\* an underflow branch that returns 1.0 where the code returns 0.0
AcceptanceProbabilityUnderflowAccepts(currentValue, neighborValue, temperature) ==
    IF neighborValue - currentValue >= 0 THEN Rat(1, 1)
    ELSE IF TempUnderflow(temperature) THEN Rat(1, 1)
    ELSE ExpNeg((currentValue - neighborValue) * temperature.d, temperature.n)

calculateAcceptanceProbability(currentValue, neighborValue, temperature) ==
    LET delta == neighborValue - currentValue
    IN  IF delta >= 0 THEN Rat(1, 1)
        ELSE IF TempUnderflow(temperature) THEN Rat(0, 1)
        ELSE \* Math.exp(delta / temperature)
             ExpNeg((-delta) * temperature.d, temperature.n)

\* searchSpace: every state of [0, 2^r) with its value, when r <= 8
SearchSpace(r, coefficients) ==
    IF r <= 8
    THEN [k \in 1..Pow(2, r) |->
            [state |-> k - 1, value |-> evaluatePolynomial(k - 1, coefficients)]]
    ELSE <<>>

IterationData(iteration, state, value, bestValue, temperature, acceptanceProbability, r) ==
    [iteration |-> iteration, state |-> state, value |-> value,
     bestValue |-> bestValue, temperature |-> temperature,
     acceptanceProbability |-> acceptanceProbability,
     binaryRepresentation |-> intToBinaryArray(state, r)]

getInitialToyState ==
    [history |-> <<>>, bestState |-> 0, bestValue |-> NegInfinity,
     acceptedWorse |-> 0, currentIteration |-> 0, searchSpace |-> <<>>,
     currentState |-> 0, currentValue |-> 0, isComplete |-> FALSE]

initializeToySimulation(params, tape, pos) ==
    IF params.r <= 0 THEN Out(getInitialToyState, pos, TRUE)
    ELSE IF pos > Len(tape) THEN Out(getInitialToyState, pos, FALSE)
    ELSE LET initialState == RandomInt(tape[pos], Pow(2, params.r))
             initialValue == evaluatePolynomial(initialState, params.coefficients)
             initialTemp == calculateTemperature(0, params.initialTemperature,
                                params.coolingRate, params.maxIterations,
                                params.coolingSchedule)
         IN  Out([history |-> <<IterationData(0, initialState, initialValue,
                                    initialValue, initialTemp, Rat(1, 1), params.r)>>,
                  bestState |-> initialState, bestValue |-> initialValue,
                  acceptedWorse |-> 0, currentIteration |-> 0,
                  searchSpace |-> SearchSpace(params.r, params.coefficients),
                  currentState |-> initialState, currentValue |-> initialValue,
                  isComplete |-> FALSE],
                 pos + 1, TRUE)

\* the guard of runSingleIteration's early return
ToyStepIsNoop(currentState, params) ==
    currentState.currentIteration >= params.maxIterations \/ currentState.isComplete

\* a step that takes every neighbour, whatever the draw
ToyShouldAcceptAlways(d, acceptanceProbability) == TRUE

\* a counter that also counts the accepted moves of equal value
ToyCountsWorseOrEqual(neighborValue, currentValue) == neighborValue <= currentValue

\* a completion flag raised one iteration late
ToyReachedEndLate(nextIteration, maxIterations) == nextIteration > maxIterations

\* shouldAccept = Math.random() < acceptanceProbability
ToyShouldAccept(d, acceptanceProbability) == RandomLess(d, acceptanceProbability)

\* if (neighborValue < currentState.currentValue) newAcceptedWorse++
ToyCountsWorse(neighborValue, currentValue) == neighborValue < currentValue

\* if (newCurrentValue > currentState.bestValue)
ToyImprovesBest(newCurrentValue, bestValue) == newCurrentValue > bestValue

\* isComplete: nextIteration >= params.maxIterations
ToyReachedEnd(nextIteration, maxIterations) == nextIteration >= maxIterations

\* What one pass of the step computes before it builds the new state.
ToyStepDetail(currentState, params, tape, pos) ==
    LET nextIteration == currentState.currentIteration + 1
        temperature == calculateTemperature(nextIteration, params.initialTemperature,
                           params.coolingRate, params.maxIterations,
                           params.coolingSchedule)
        nb == generateNeighbor(currentState.currentState, params.r,
                               params.neighborType, tape, pos)
        neighborState == nb.v
        neighborValue == evaluatePolynomial(neighborState, params.coefficients)
        acceptanceProbability ==
            calculateAcceptanceProbability(currentState.currentValue, neighborValue,
                                           temperature)
        ok == nb.ok /\ nb.pos <= Len(tape)
        shouldAccept == ok /\ ToyShouldAccept(tape[nb.pos], acceptanceProbability)
    IN  [ok |-> ok, pos |-> nb.pos + 1, nextIteration |-> nextIteration,
         temperature |-> temperature, neighborState |-> neighborState,
         neighborValue |-> neighborValue,
         acceptanceProbability |-> acceptanceProbability,
         shouldAccept |-> shouldAccept]

\* the state the step returns, given what the pass computed (s), the current
\* solution after the acceptance decision and the accepted-worse counter
ToyCommit(currentState, params, s, newCurrentState, newCurrentValue, newAcceptedWorse) ==
    LET improves == ToyImprovesBest(newCurrentValue, currentState.bestValue)
        newBestState == IF improves THEN newCurrentState ELSE currentState.bestState
        newBestValue == IF improves THEN newCurrentValue ELSE currentState.bestValue
    IN  [currentState EXCEPT
            !.history = Append(currentState.history,
                IterationData(s.nextIteration, newCurrentState, newCurrentValue,
                              newBestValue, s.temperature, s.acceptanceProbability,
                              params.r)),
            !.bestState = newBestState,
            !.bestValue = newBestValue,
            !.acceptedWorse = newAcceptedWorse,
            !.currentIteration = s.nextIteration,
            !.currentState = newCurrentState,
            !.currentValue = newCurrentValue,
            !.isComplete = ToyReachedEnd(s.nextIteration, params.maxIterations)]

\* if (shouldAccept) { if (neighborValue < currentValue) newAcceptedWorse++; ... }
ToyDecide(currentState, params, s) ==
    IF s.shouldAccept
    THEN ToyCommit(currentState, params, s, s.neighborState, s.neighborValue,
                   IF ToyCountsWorse(s.neighborValue, currentState.currentValue)
                   THEN currentState.acceptedWorse + 1
                   ELSE currentState.acceptedWorse)
    ELSE ToyCommit(currentState, params, s, currentState.currentState,
                   currentState.currentValue, currentState.acceptedWorse)

ToyStepOut(currentState, params, s) ==
    IF ~s.ok THEN Out(currentState, s.pos, FALSE)
    ELSE Out(ToyDecide(currentState, params, s), s.pos, TRUE)

runSingleIteration(currentState, params, tape, pos) ==
    IF ToyStepIsNoop(currentState, params)
    THEN Out([currentState EXCEPT !.isComplete = TRUE], pos, TRUE)
    ELSE \* the pass is computed once and its record handed on
         CHOOSE out \in {ToyStepOut(currentState, params, s) :
                            s \in {ToyStepDetail(currentState, params, tape, pos)}} : TRUE

(* runToySimulation.  Its loop keeps its own locals; loc is their record    *)
(* at the top of the pass for `iteration`.                                 *)
BatchCommit(loc, iteration, params, s, currentState, currentValue, acceptedWorse) ==
    LET better == currentValue > loc.bestValue
        bestState == IF better THEN currentState ELSE loc.bestState
        bestValue == IF better THEN currentValue ELSE loc.bestValue
    IN  [currentState |-> currentState, currentValue |-> currentValue,
         bestState |-> bestState, bestValue |-> bestValue,
         acceptedWorse |-> acceptedWorse,
         history |-> Append(loc.history,
             IterationData(iteration, currentState, currentValue, bestValue,
                           s.temperature, s.acceptanceProbability, params.r))]

BatchDecide(loc, iteration, params, s) ==
    IF s.shouldAccept
    THEN BatchCommit(loc, iteration, params, s, s.neighborState, s.neighborValue,
                     IF s.neighborValue < loc.currentValue
                     THEN loc.acceptedWorse + 1 ELSE loc.acceptedWorse)
    ELSE BatchCommit(loc, iteration, params, s, loc.currentState, loc.currentValue,
                     loc.acceptedWorse)

\* what one pass of the loop computes before it updates the locals
BatchPass(loc, iteration, params, tape, pos) ==
    LET temperature == calculateTemperature(iteration, params.initialTemperature,
                           params.coolingRate, params.maxIterations,
                           params.coolingSchedule)
        nb == generateNeighbor(loc.currentState, params.r, params.neighborType,
                               tape, pos)
        neighborValue == evaluatePolynomial(nb.v, params.coefficients)
        acceptanceProbability ==
            calculateAcceptanceProbability(loc.currentValue, neighborValue, temperature)
        ok == nb.ok /\ nb.pos <= Len(tape)
    IN  [ok |-> ok, pos |-> nb.pos + 1, temperature |-> temperature,
         neighborState |-> nb.v, neighborValue |-> neighborValue,
         acceptanceProbability |-> acceptanceProbability,
         shouldAccept |-> ok /\ RandomLess(tape[nb.pos], acceptanceProbability)]

RECURSIVE BatchLoop(_, _, _, _, _)
BatchAfter(loc, iteration, params, tape, s) ==
    IF ~s.ok THEN Out(loc, s.pos, FALSE)
    ELSE IF iteration >= params.maxIterations
         THEN Out(BatchDecide(loc, iteration, params, s), s.pos, TRUE)   \* break
         ELSE BatchLoop(BatchDecide(loc, iteration, params, s), iteration + 1,
                        params, tape, s.pos)

\* for (iteration = 1; iteration <= maxIterations; iteration++) { ... }
BatchLoop(loc, iteration, params, tape, pos) ==
    IF iteration > params.maxIterations THEN Out(loc, pos, TRUE)
    ELSE BatchAfter(loc, iteration, params, tape,
                    BatchPass(loc, iteration, params, tape, pos))

BatchResult(params, loc, run) ==
    Out([history |-> loc.history, bestState |-> loc.bestState,
         bestValue |-> loc.bestValue, acceptedWorse |-> loc.acceptedWorse,
         currentIteration |-> Min(params.maxIterations, Len(loc.history) - 1),
         searchSpace |-> SearchSpace(params.r, params.coefficients),
         currentState |-> loc.currentState, currentValue |-> loc.currentValue,
         isComplete |-> TRUE],
        run.pos, run.ok)

BatchStart(params, currentState, currentValue, initialTemp) ==
    [currentState |-> currentState, currentValue |-> currentValue,
     bestState |-> currentState, bestValue |-> currentValue, acceptedWorse |-> 0,
     history |-> <<IterationData(0, currentState, currentValue, currentValue,
                                 initialTemp, Rat(1, 1), params.r)>>]

BatchRun(params, run) == BatchResult(params, run.v, run)

runToySimulation(params, tape, pos) ==
    IF params.r <= 0 THEN Out(getInitialToyState, pos, TRUE)
    ELSE IF pos > Len(tape) THEN Out(getInitialToyState, pos, FALSE)
    ELSE BatchRun(params,
            BatchLoop(BatchStart(params,
                          RandomInt(tape[pos], Pow(2, params.r)),
                          evaluatePolynomial(RandomInt(tape[pos], Pow(2, params.r)),
                                             params.coefficients),
                          calculateTemperature(0, params.initialTemperature,
                              params.coolingRate, params.maxIterations,
                              params.coolingSchedule)),
                      1, params, tape, pos + 1))

(***************************************************************************)
(* TSP engine: utils/simulatedAnnealing.ts                                 *)
(***************************************************************************)
\* Math.sqrt on the squares the model's coordinates produce
ISqrt(x) == CHOOSE q \in 0..x : q * q <= x /\ x < (q + 1) * (q + 1)

distance(city1, city2) ==
    LET dx == city1.x - city2.x
        dy == city1.y - city2.y
    IN  ISqrt(dx * dx + dy * dy)

\* cities[k] of the code, k counted from 0
CityAt(cities, k) == cities[k + 1]

RECURSIVE SumLegs(_, _, _)
\* for (i = 0; i < path.length - 1; i++) totalDist += distance(path[i], path[i+1])
SumLegs(cities, path, i) ==
    IF i >= Len(path) THEN 0
    ELSE distance(CityAt(cities, path[i]), CityAt(cities, path[i + 1]))
         + SumLegs(cities, path, i + 1)

\* a cost that leaves out the way back to the start
calculatePathDistanceOpen(cities, path) ==
    IF Len(cities) < 2 \/ Len(path) = 0 THEN 0
    ELSE distance(CityAt(cities, 0), CityAt(cities, path[1]))
         + SumLegs(cities, path, 1)

calculatePathDistance(cities, path) ==
    IF Len(cities) < 2 \/ Len(path) = 0 THEN 0
    ELSE distance(CityAt(cities, 0), CityAt(cities, path[1]))
         + SumLegs(cities, path, 1)
         + distance(CityAt(cities, path[Len(path)]), CityAt(cities, 0))

getInitialState ==
    [cities |-> <<>>, currentPath |-> <<>>, bestPath |-> <<>>, distances |-> <<>>,
     currentDistance |-> 0, bestDistance |-> 0, temperature |-> Rat(0, 1),
     iteration |-> 0, totalIterations |-> 0, isRunning |-> FALSE,
     animationSpeed |-> 1]

\* a swap that copies one entry over the other
SwapOverwrites(array, a, b) == [array EXCEPT ![a + 1] = array[b + 1]]

\* [array[a], array[b]] = [array[b], array[a]], a and b counted from 0
Swap(array, a, b) ==
    [array EXCEPT ![a + 1] = array[b + 1], ![b + 1] = array[a + 1]]

RECURSIVE ShuffleFrom(_, _, _)
\* for (i = array.length - 1; i > 0; i--) { j = floor(random * (i + 1)); swap(i, j) }
\* ds holds the draws in the order the loop makes them
ShuffleFrom(array, i, ds) ==
    IF i <= 0 THEN array
    ELSE LET j == RandomInt(ds[Len(array) - i], i + 1)
         IN  ShuffleFrom(Swap(array, i, j), i - 1, ds)

shuffleArray(array, ds) == ShuffleFrom(array, Len(array) - 1, ds)

\* Array.from({ length: n - 1 }, (_, i) => i + 1)
PathIndices(n) == [i \in 1..(n - 1) |-> i]

\* an initialisation without the guard on the number of cities
initializeSimulationUnguarded(cities, params, ds) ==
    [cities |-> cities,
     currentPath |-> shuffleArray(PathIndices(Len(cities)), ds),
     bestPath |-> shuffleArray(PathIndices(Len(cities)), ds),
     distances |-> <<calculatePathDistance(cities,
                        shuffleArray(PathIndices(Len(cities)), ds))>>,
     currentDistance |-> calculatePathDistance(cities,
                             shuffleArray(PathIndices(Len(cities)), ds)),
     bestDistance |-> calculatePathDistance(cities,
                          shuffleArray(PathIndices(Len(cities)), ds)),
     temperature |-> params.initialTemperature, iteration |-> 0,
     totalIterations |-> params.totalIterations, isRunning |-> TRUE,
     animationSpeed |-> 1]

initializeSimulation(cities, params, ds) ==
    IF Len(cities) < 3 THEN getInitialState
    ELSE LET pathIndices == shuffleArray(PathIndices(Len(cities)), ds)
             initialDistance == calculatePathDistance(cities, pathIndices)
         IN  [cities |-> cities, currentPath |-> pathIndices, bestPath |-> pathIndices,
              distances |-> <<initialDistance>>, currentDistance |-> initialDistance,
              bestDistance |-> initialDistance,
              temperature |-> params.initialTemperature, iteration |-> 0,
              totalIterations |-> params.totalIterations, isRunning |-> TRUE,
              animationSpeed |-> 1]

\* an early return that forgets the iteration budget
TspStepIsNoopUnbounded(state) == Len(state.cities) < 3

\* the guard of simulationStep's early return
TspStepIsNoop(state) ==
    Len(state.cities) < 3 \/ state.iteration >= state.totalIterations

\* Math.random() < Math.exp((currentDistance - newDistance) / temperature), reached
\* only when newDistance >= currentDistance.  With temperature 0 the quotient
\* is -Infinity or NaN and the comparison is false.
TspBoltzmann(newDistance, currentDistance, temperature, d) ==
    /\ temperature.n > 0
    /\ RandomLess(d, ExpNeg((newDistance - currentDistance) * temperature.d,
                            temperature.n))

\* an acceptance test that weighs every move, shorter or longer, by the size
\* of the difference
TspAcceptsWeighsAll(newDistance, currentDistance, temperature, d) ==
    /\ temperature.n > 0
    /\ RandomLess(d, ExpNeg(Abs(newDistance - currentDistance) * temperature.d,
                            temperature.n))

\* acceptNewSolution
TspAccepts(newDistance, currentDistance, temperature, d) ==
    \/ newDistance < currentDistance
    \/ TspBoltzmann(newDistance, currentDistance, temperature, d)

\* a best tour replaced by every accepted tour
TspImprovesBestAlways(bestPath, newDistance, bestDistance) == TRUE

\* a best tour replaced by an accepted tour of the same length
TspImprovesBestOnTie(bestPath, newDistance, bestDistance) ==
    Len(bestPath) = 0 \/ newDistance <= bestDistance

\* if (bestPath.length === 0 || newDistance < state.bestDistance)
TspImprovesBest(bestPath, newDistance, bestDistance) ==
    Len(bestPath) = 0 \/ newDistance < bestDistance

\* a position drawn among as many places as there are cities
TspSwapPositionAmongCities(cities, d) == RandomInt(d, Len(cities))

\* const numCities = cities.length - 1; Math.floor(Math.random() * numCities)
TspSwapPosition(cities, d) == RandomInt(d, Len(cities) - 1)

\* What one pass of the step computes: the swap and the decision.
TspStepDetail(state, di, dj, da) ==
    LET i == TspSwapPosition(state.cities, di)
        j == TspSwapPosition(state.cities, dj)
        newPath == IF i # j THEN Swap(state.currentPath, i, j) ELSE state.currentPath
        currentDistance == calculatePathDistance(state.cities, state.currentPath)
        newDistance == calculatePathDistance(state.cities, newPath)
    IN  [i |-> i, j |-> j, newPath |-> newPath, newDistance |-> newDistance,
         accepted |-> i # j /\ TspAccepts(newDistance, currentDistance,
                                          state.temperature, da)]

\* a step that waits for an accepted pair: nothing is counted or logged otherwise
TspApplyStalls(state, params, s) ==
    IF s.accepted
    THEN [state EXCEPT
            !.currentPath = s.newPath,
            !.distances = Append(state.distances, s.newDistance),
            !.currentDistance = s.newDistance,
            !.iteration = state.iteration + 1]
    ELSE state

\* a step that moves to the accepted tour and keeps the distance it had cached
TspApplyKeepsCachedDistance(state, params, s) ==
    IF s.accepted
    THEN [state EXCEPT
            !.currentPath = s.newPath,
            !.distances = Append(state.distances, s.newDistance),
            !.temperature = RatMul(state.temperature, params.coolingRate),
            !.iteration = state.iteration + 1]
    ELSE [state EXCEPT
            !.distances = Append(state.distances,
                             calculatePathDistance(state.cities, state.currentPath)),
            !.temperature = RatMul(state.temperature, params.coolingRate),
            !.iteration = state.iteration + 1]

\* a step that, when the candidate is rejected, takes the current tour as
\* the best one
TspApplyRejectedForgetsBest(state, params, s) ==
    IF s.accepted
    THEN [state EXCEPT
            !.currentPath = s.newPath,
            !.bestPath = IF TspImprovesBest(state.bestPath, s.newDistance,
                                            state.bestDistance)
                         THEN s.newPath ELSE state.bestPath,
            !.distances = Append(state.distances, s.newDistance),
            !.currentDistance = s.newDistance,
            !.bestDistance = IF TspImprovesBest(state.bestPath, s.newDistance,
                                                state.bestDistance)
                             THEN s.newDistance ELSE state.bestDistance,
            !.temperature = RatMul(state.temperature, params.coolingRate),
            !.iteration = state.iteration + 1]
    ELSE [state EXCEPT
            !.bestPath = state.currentPath,
            !.bestDistance = state.currentDistance,
            !.distances = Append(state.distances,
                             calculatePathDistance(state.cities, state.currentPath)),
            !.temperature = RatMul(state.temperature, params.coolingRate),
            !.iteration = state.iteration + 1]

\* the state the step returns, given the swap and the decision (s)
TspApply(state, params, s) ==
    IF s.accepted
    THEN [state EXCEPT
            !.currentPath = s.newPath,
            !.bestPath = IF TspImprovesBest(state.bestPath, s.newDistance,
                                            state.bestDistance)
                         THEN s.newPath ELSE state.bestPath,
            !.distances = Append(state.distances, s.newDistance),
            !.currentDistance = s.newDistance,
            !.bestDistance = IF TspImprovesBest(state.bestPath, s.newDistance,
                                                state.bestDistance)
                             THEN s.newDistance ELSE state.bestDistance,
            !.temperature = RatMul(state.temperature, params.coolingRate),
            !.iteration = state.iteration + 1]
    ELSE [state EXCEPT
            !.distances = Append(state.distances,
                             calculatePathDistance(state.cities, state.currentPath)),
            !.temperature = RatMul(state.temperature, params.coolingRate),
            !.iteration = state.iteration + 1]

simulationStep(state, params, di, dj, da) ==
    IF TspStepIsNoop(state) THEN [state EXCEPT !.isRunning = FALSE]
    ELSE TspApply(state, params, TspStepDetail(state, di, dj, da))

(***************************************************************************)
(* Alias method (pages/AliasMethod.tsx).  Probabilities are rationals in   *)
(* lowest terms; an index is the code's 0-based index, so entry i of an    *)
(* array is element i + 1 of the sequence that models it.                  *)
(***************************************************************************)
RatAdd(a, b) == Lowest(Rat(a.n * b.d + b.n * a.d, a.d * b.d))
RatSub(a, b) == Lowest(Rat(a.n * b.d - b.n * a.d, a.d * b.d))
\* a / b for b > 0
RatDiv(a, b) == Lowest(Rat(a.n * b.d, a.d * b.n))

RECURSIVE RatSum(_, _)
\* probs.reduce((acc, val) => acc + val, 0) over the first k entries
RatSum(probs, k) ==
    IF k = 0 THEN Rat(0, 1) ELSE RatAdd(RatSum(probs, k - 1), probs[k])

\* if (sum === 0): the branch that raises the toast and returns 1/n each
normalizeProbsWarns(probs) == RatSum(probs, Len(probs)).n = 0

\* a normalisation without the fallback: a zero vector stays as it is
normalizeProbsNoFallback(probs) ==
    IF normalizeProbsWarns(probs) THEN probs
    ELSE [i \in 1..Len(probs) |-> RatDiv(probs[i], RatSum(probs, Len(probs)))]

normalizeProbs(probs) ==
    IF normalizeProbsWarns(probs)
    THEN [i \in 1..Len(probs) |-> Rat(1, Len(probs))]
    ELSE [i \in 1..Len(probs) |-> RatDiv(probs[i], RatSum(probs, Len(probs)))]

\* stack.pop(): the element taken and the stack left
Top(stack) == stack[Len(stack)]
Pop(stack) == SubSeq(stack, 1, Len(stack) - 1)

RECURSIVE AliasWorklist(_, _, _)
\* the indices below k, in increasing order, whose scaled probability is
\* below 1 (isSmall) or not (~isSmall): the stacks small and large
AliasWorklist(scaledProbs, k, isSmall) ==
    IF k = 0 THEN <<>>
    ELSE AliasWorklist(scaledProbs, k - 1, isSmall)
         \o (IF RatLess(scaledProbs[k], Rat(1, 1)) = isSmall THEN <<k - 1>> ELSE <<>>)

\* an alias table that starts at n, outside the indices
AliasFillOutside(n) == [i \in 1..n |-> n]

\* new Array(n).fill(0) for aliasTable
AliasFill(n) == [i \in 1..n |-> 0]

\* the locals of createAliasTables before its while loop; written holds every
\* value assigned to an entry of scaledProbs so far, assigned every assignment
\* to an entry of probTable and aliased every assignment to an entry of
\* aliasTable, in order, and iterations counts the passes of the loop
AliasStart(probs) ==
    [scaledProbs |-> [i \in 1..Len(probs) |-> Lowest(RatMul(probs[i], Rat(Len(probs), 1)))],
     probTable |-> [i \in 1..Len(probs) |-> Rat(0, 1)],
     aliasTable |-> AliasFill(Len(probs)),
     small |-> AliasWorklist([i \in 1..Len(probs) |->
                                 Lowest(RatMul(probs[i], Rat(Len(probs), 1)))],
                             Len(probs), TRUE),
     large |-> AliasWorklist([i \in 1..Len(probs) |->
                                 Lowest(RatMul(probs[i], Rat(Len(probs), 1)))],
                             Len(probs), FALSE),
     written |-> [i \in 1..Len(probs) |-> Lowest(RatMul(probs[i], Rat(Len(probs), 1)))],
     assigned |-> <<>>,
     aliased |-> <<>>,
     iterations |-> 0]

\* a reduction that takes the whole of a slot from l, not what s leaves free
AliasReduceWhole(scaledL, scaledS) == RatSub(scaledL, Rat(1, 1))

\* scaledProbs[l] -= (1 - scaledProbs[s])
AliasReduce(scaledL, scaledS) == RatSub(scaledL, RatSub(Rat(1, 1), scaledS))

\* one pass of the while loop, s and l popped and reduced the new scaledProbs[l]
AliasPair(b, s, l, reduced) ==
    [scaledProbs |-> [b.scaledProbs EXCEPT ![l + 1] = reduced],
     probTable |-> [b.probTable EXCEPT ![s + 1] = b.scaledProbs[s + 1]],
     aliasTable |-> [b.aliasTable EXCEPT ![s + 1] = l],
     small |-> IF RatLess(reduced, Rat(1, 1))
               THEN Append(Pop(b.small), l) ELSE Pop(b.small),
     large |-> IF RatLess(reduced, Rat(1, 1))
               THEN Pop(b.large) ELSE Append(Pop(b.large), l),
     written |-> Append(b.written, reduced),
     assigned |-> Append(b.assigned, [index |-> s, value |-> b.scaledProbs[s + 1]]),
     aliased |-> Append(b.aliased, [index |-> s, value |-> l]),
     iterations |-> b.iterations + 1]

RECURSIVE AliasLoop(_)
\* while (small.length > 0 && large.length > 0) { ... }
AliasLoop(b) ==
    IF Len(b.small) = 0 \/ Len(b.large) = 0 THEN b
    ELSE AliasLoop(AliasPair(b, Top(b.small), Top(b.large),
                     AliasReduce(b.scaledProbs[Top(b.large) + 1],
                                 b.scaledProbs[Top(b.small) + 1])))

\* final loops that go over every index, not over the two worklists
AliasLeftoverAll(b) == [k \in 1..Len(b.probTable) |-> k - 1]

\* the indices the two final loops go over: those of large, then those of small
AliasLeftover(b) == b.large \o b.small

\* for (const l of large) probTable[l] = 1; for (const s of small) probTable[s] = 1
AliasFinish(b) ==
    [b EXCEPT
        !.probTable =
            [i \in 1..Len(b.probTable) |->
                IF \E k \in 1..Len(AliasLeftover(b)) : AliasLeftover(b)[k] = i - 1
                THEN Rat(1, 1) ELSE b.probTable[i]],
        !.assigned =
            b.assigned \o [k \in 1..Len(AliasLeftover(b)) |->
                              [index |-> AliasLeftover(b)[k], value |-> Rat(1, 1)]]]

\* createAliasTables with its locals as they are on return
AliasConstruction(probs) == AliasFinish(AliasLoop(AliasStart(probs)))

createAliasTables(probs) ==
    [probTable |-> AliasConstruction(probs).probTable,
     aliasTable |-> AliasConstruction(probs).aliasTable]

\* a rule that takes the alias on a low coin and the bucket otherwise
AliasSampleSwapped(probTable, aliasTable, bucket, coinFlip) ==
    IF RandomLess(coinFlip, probTable[bucket + 1]) THEN aliasTable[bucket + 1] ELSE bucket

\* outcome = coinFlip < probTable[bucket] ? bucket : aliasTable[bucket]
AliasSample(probTable, aliasTable, bucket, coinFlip) ==
    IF RandomLess(coinFlip, probTable[bucket + 1]) THEN bucket ELSE aliasTable[bucket + 1]

RECURSIVE sample(_, _, _, _)
\* sample(size): ds holds the 2 * size draws of the loop, bucket then coin
sample(probTable, aliasTable, size, ds) ==
    IF size = 0 THEN <<>>
    ELSE <<AliasSample(probTable, aliasTable,
                       RandomInt(ds[1], Len(probTable)), ds[2])>>
         \o sample(probTable, aliasTable, size - 1, SubSeq(ds, 3, Len(ds)))

\* counts[i] / sampleSize for each outcome i
AliasFrequencies(samples, n, sampleSize) ==
    [i \in 1..n |->
        Lowest(Rat(Cardinality({k \in 1..Len(samples) : samples[k] = i - 1}),
                   sampleSize))]

\* new Array(n).fill(0) for empiricalFrequencies
AliasZeros(n) == [i \in 1..n |-> Rat(0, 1)]

(***************************************************************************)
(* State.  One page is mounted at a time (the router shows a single page); *)
(* the other page's variables keep their initial values.                   *)
(***************************************************************************)
VARIABLES
    page,           \* "tsp" | "toy" | "batch" | "degenerate" | "alias" | "aliasTables" | "encode": the page (or harness) in use
    tspState,       \* Simulator: state
    tspParams,      \* Simulator: params
    tspPrev,        \* history: tspState before the last event
    tspEv,          \* history: the last Simulator event and what its step decided
    tspRunLog,      \* history: the iteration indices executed since the state was (re)created
    tspRunParams,   \* history: the params records those steps were executed with
    toyState,       \* SimulatedAnnealingToy: state
    toyParams,      \* SimulatedAnnealingToy: params
    toyIsRunning,   \* SimulatedAnnealingToy: isRunning
    toyPrev,        \* history: toyState before the last event
    toyEv,          \* history: the last toy event and what its step decided
    toyRunLog,      \* history: the iteration indices executed since the state was (re)created
    toyRunParams,   \* history: the params records those steps were executed with
    tape,           \* harness: the sequence of Math.random() values of the run
    tapePos,        \* harness: position of the next draw on the tape
    edits,          \* number of edits (parameters, speed, clear, generate) made so far
    degParams,      \* degenerate harness: toy params with r <= 0
    degState,       \* degenerate harness: the state the engine returned last
    degOp,          \* degenerate harness: the engine function called last
    bitsCall,       \* encoding harness: the arguments of intToBinaryArray and what it returned
    aliasState,     \* AliasMethod: state
    aliasPrev,      \* history: probs and the two tables before the last event
    aliasEv,        \* history: the last Alias event, its draws and the outcomes sampled
    aliasWeights,   \* history: the weight vector handed to normalizeProbs last
    aliasTimers     \* AliasMethod: the pending setTimeout chains of animated samples

tspVars == <<tspState, tspParams, tspPrev, tspEv, tspRunLog, tspRunParams>>
toyVars == <<toyState, toyParams, toyIsRunning, toyPrev, toyEv, toyRunLog, toyRunParams>>
tapeVars == <<tape, tapePos>>
degVars == <<degParams, degState, degOp, bitsCall>>
aliasVars == <<aliasState, aliasPrev, aliasEv, aliasWeights, aliasTimers>>
vars == <<page, tspVars, toyVars, tapeVars, edits, degVars, aliasVars>>

(***************************************************************************)
(* Inputs of the model.                                                    *)
(***************************************************************************)
\* where a city may be put: two opposite corners of a 3 x 4 rectangle, at
\* distance 5 (several cities may share a place, as on the canvas)
Sites == {<<0, 0>>, <<3, 4>>}
\* the places a click can add the next city at, given the cities already there:
\* the first two cities are put on the two sites, the later ones on either
ClickSites(have) ==
    IF have = 0 THEN {<<0, 0>>} ELSE IF have = 1 THEN {<<3, 4>>} ELSE Sites

TspTemperatures == {Rat(10, 1)}
TspCoolingRates == {Rat(1, 2), Rat(3, 4)}
TspIterations == {1, MaxIter}
\* the city counts asked of Generate (the input is clamped to 3..50)
RandomCounts == {MaxCities}
TspSpeeds == {1, 2}

DefaultTspParams ==
    [initialTemperature |-> Rat(10, 1), coolingRate |-> Rat(1, 2),
     totalIterations |-> MaxIter]

ToyBitWidths == {1, 2}
ToyIterations == {1, MaxIter}
\* 1e-6 puts every step of a Geometric run at or below the underflow threshold
ToyTemperatures == {Rat(1, 1000000), Rat(1, 2), Rat(5, 1)}
ToyCoolingRates == {Rat(1, 2)}
NeighborTypes == {"Single Bit Flip", "Two Bit Flip", "Random Walk"}
CoolingSchedules == {"Geometric", "Linear", "Logarithmic"}
ToyCoefficientValues == {-1, 1}
ToyDegrees == {1, 2}

\* the page's defaults, with the bit-width and the budget scaled to the model
DefaultToyParams ==
    [r |-> 2, maxIterations |-> MaxIter, initialTemperature |-> Rat(5, 1),
     coolingRate |-> Rat(1, 2), neighborType |-> "Single Bit Flip",
     coolingSchedule |-> "Geometric", coefficients |-> <<1, -1, 1>>]

\* sequences of draws of length lo..hi
DrawSeqs(lo, hi) == UNION {[1..k -> Draws] : k \in lo..hi}

NoTspEv(op) == [op |-> op, moved |-> FALSE, accepted |-> FALSE]
NoToyEv(op) ==
    [op |-> op, neighborState |-> 0, neighborValue |-> 0, shouldAccept |-> FALSE]

TspIdle ==
    /\ tspState = getInitialState
    /\ tspParams = DefaultTspParams
    /\ tspPrev = getInitialState
    /\ tspEv = NoTspEv("mount")
    /\ tspRunLog = <<>>
    /\ tspRunParams = {}

ToyIdle ==
    /\ toyState = getInitialToyState
    /\ toyParams = DefaultToyParams
    /\ toyIsRunning = FALSE
    /\ toyPrev = getInitialToyState
    /\ toyEv = NoToyEv("mount")
    /\ toyRunLog = <<>>
    /\ toyRunParams = {}

\* const initialProbs = [0.3, 0.1, 0.1, 0.25, 0.25]
initialProbs == <<Rat(3, 10), Rat(1, 10), Rat(1, 10), Rat(1, 4), Rat(1, 4)>>

\* null in highlightedItem and selectedBucket
NoItem == -1

\* the sample size of the page (1000 in the source), scaled to the model
DefaultSampleSize == 1

\* positions of the sample-size slider, scaled to the model
AliasSampleSizes == 1..MaxSamples

\* positions of a probability slider (0 to 1 in the source)
AliasSliderValues == {Rat(0, 1), Rat(1, 2), Rat(1, 1)}

\* useState<AliasMethodState>({...})
AliasInitialState ==
    [probs |-> initialProbs, probTable |-> <<>>, aliasTable |-> <<>>,
     empiricalFrequencies |-> <<>>, sampleSize |-> DefaultSampleSize,
     isAnimating |-> FALSE, highlightedItem |-> NoItem, animationPhase |-> "null",
     selectedBucket |-> NoItem, flipResult |-> "null"]

NoAliasEv(op) == [op |-> op, draws |-> <<>>, outcomes |-> <<>>]

\* the weights and the tables of a state
AliasTablesOf(state) ==
    [probs |-> state.probs, probTable |-> state.probTable, aliasTable |-> state.aliasTable]

\* a weight change that stores the normalized probs and leaves the tables
AliasRebuiltKeepsTables(state, normalizedProbs) ==
    [state EXCEPT
        !.probs = normalizedProbs,
        !.empiricalFrequencies = AliasZeros(Len(normalizedProbs)),
        !.highlightedItem = NoItem,
        !.animationPhase = "null",
        !.selectedBucket = NoItem,
        !.flipResult = "null"]

\* the fields a weight change sets: normalized probs, the tables built from
\* them, frequencies at zero and no highlight
AliasRebuilt(state, normalizedProbs) ==
    [state EXCEPT
        !.probs = normalizedProbs,
        !.probTable = createAliasTables(normalizedProbs).probTable,
        !.aliasTable = createAliasTables(normalizedProbs).aliasTable,
        !.empiricalFrequencies = AliasZeros(Len(normalizedProbs)),
        !.highlightedItem = NoItem,
        !.animationPhase = "null",
        !.selectedBucket = NoItem,
        !.flipResult = "null"]

\* the initialisation effect, run on the weights the page starts with
AliasMounted(weights) ==
    [AliasInitialState EXCEPT
        !.probs = normalizeProbs(weights),
        !.probTable = createAliasTables(normalizeProbs(weights)).probTable,
        !.aliasTable = createAliasTables(normalizeProbs(weights)).aliasTable,
        !.empiricalFrequencies = AliasZeros(Len(weights))]

AliasIdle ==
    /\ aliasState = AliasInitialState
    /\ aliasPrev = AliasTablesOf(AliasInitialState)
    /\ aliasEv = NoAliasEv("none")
    /\ aliasWeights = initialProbs
    /\ aliasTimers = <<>>

\* no call of intToBinaryArray made
NoBitsCall == [n |-> 0, r |-> 0, called |-> FALSE, out |-> <<>>]

DegIdle ==
    /\ bitsCall = NoBitsCall
    /\ degParams = DefaultToyParams
    /\ degState = getInitialToyState
    /\ degOp = "none"

(***************************************************************************)
(* Simulator page (the TSP driver).                                        *)
(***************************************************************************)
TspInit ==
    /\ page = "tsp"
    /\ TspIdle
    /\ AliasIdle
    /\ DegIdle
    /\ ToyIdle
    /\ tape = <<>>
    /\ tapePos = 1
    /\ edits = 0

\* the history variables of an event that is not a step; an event that
\* creates the state afresh starts a new history
TspNote(op, fresh) ==
    /\ edits' = IF op \in {"params", "clear", "randomize", "speed"}
                THEN edits + 1 ELSE edits
    /\ tspPrev' = IF fresh THEN tspState' ELSE tspState
    /\ tspEv' = NoTspEv(op)
    /\ tspRunLog' = IF fresh THEN <<>> ELSE tspRunLog
    /\ tspRunParams' = IF fresh THEN {} ELSE tspRunParams

\* a guard that lets the edits through while the simulation runs
TspEditableAlways(state) == TRUE

\* if (state.isRunning) return, first line of the four editing handlers
TspEditable(state) == ~state.isRunning

handleAddCity(x, y) ==
    /\ page = "tsp"
    /\ TspEditable(tspState)
    /\ Len(tspState.cities) < MaxCities
    /\ LET newCities == Append(tspState.cities,
                               [id |-> Len(tspState.cities), x |-> x, y |-> y])
           pathIndices == PathIndices(Len(newCities))
           initialDistance == calculatePathDistance(newCities, pathIndices)
       IN  tspState' =
             IF Len(newCities) >= 3
             THEN [tspState EXCEPT
                     !.cities = newCities,
                     !.currentPath = pathIndices,
                     !.bestPath = pathIndices,
                     !.distances = <<initialDistance>>,
                     !.currentDistance = initialDistance,
                     !.bestDistance = initialDistance]
             ELSE [tspState EXCEPT !.cities = newCities]
    /\ TspNote("addCity", FALSE)
    /\ UNCHANGED <<page, degVars, aliasVars, tspParams, toyVars, tapeVars>>

\* ControlPanel.handleParamChange -> handleParamsChange; the sliders are
\* disabled while the simulation runs
handleParamsChange(newParams) ==
    /\ page = "tsp"
    /\ edits < MaxEdits
    /\ ~tspState.isRunning
    /\ tspParams' = newParams
    /\ TspNote("params", FALSE)
    /\ UNCHANGED <<page, degVars, aliasVars, tspState, toyVars, tapeVars>>

handleClearCities ==
    /\ page = "tsp"
    /\ edits < MaxEdits
    /\ TspEditable(tspState)
    /\ tspState' = getInitialState
    /\ TspNote("clear", TRUE)
    /\ UNCHANGED <<page, degVars, aliasVars, tspParams, toyVars, tapeVars>>

handleReset(ds) ==
    /\ page = "tsp"
    /\ TspEditable(tspState)
    /\ IF Len(tspState.cities) < 3
       THEN \* toast.error("Add at least 3 cities ..."); return
            /\ tspState' = tspState
            /\ TspNote("resetRefused", FALSE)
       ELSE /\ tspState' = [initializeSimulation(tspState.cities, tspParams, ds) EXCEPT
                              !.isRunning = FALSE,
                              !.animationSpeed = tspState.animationSpeed]
            /\ TspNote("reset", TRUE)
    /\ UNCHANGED <<page, degVars, aliasVars, tspParams, toyVars, tapeVars>>

\* createRandomCities(count): count cities at random places, the first two
\* on the two sites as for the clicks.
CityLists(count) ==
    {[k \in 1..count |-> [id |-> k - 1, x |-> f[k][1], y |-> f[k][2]]] :
        f \in {g \in [1..count -> Sites] :
                  \A k \in 1..count : g[k] \in ClickSites(k - 1)}}

handleRandomizeCities(newCities, ds) ==
    /\ page = "tsp"
    /\ edits < MaxEdits
    /\ TspEditable(tspState)
    /\ tspState' = [initializeSimulation(newCities, tspParams, ds) EXCEPT
                      !.isRunning = FALSE,
                      !.animationSpeed = tspState.animationSpeed]
    /\ TspNote("randomize", TRUE)
    /\ UNCHANGED <<page, degVars, aliasVars, tspParams, toyVars, tapeVars>>

\* a pause that counts the frame in flight once more
TspPausedCountsTwice(prevState) ==
    [prevState EXCEPT !.isRunning = FALSE, !.iteration = @ + 1]

\* if (prevState.isRunning) return { ...prevState, isRunning: false }
TspPaused(prevState) == [prevState EXCEPT !.isRunning = FALSE]

\* return { ...newState, isRunning: true }, newState the state as it was paused
TspResumed(prevState) == [prevState EXCEPT !.isRunning = TRUE]

handleStartStop ==
    /\ page = "tsp"
    /\ \/ /\ ~tspState.isRunning /\ Len(tspState.cities) < 3
          /\ tspState' = tspState
          /\ TspNote("refused", FALSE)
       \/ /\ tspState.isRunning
          /\ tspState' = TspPaused(tspState)
          /\ TspNote("pause", FALSE)
       \/ /\ ~tspState.isRunning /\ Len(tspState.cities) >= 3
          /\ IF Len(tspState.currentPath) = 0 \/ Len(tspState.bestPath) = 0
             THEN /\ \E ds \in DrawSeqs(Len(tspState.cities) - 2, Len(tspState.cities) - 2) :
                        tspState' = [initializeSimulation(tspState.cities, tspParams, ds)
                                        EXCEPT !.isRunning = TRUE]
                  /\ TspNote("resume", TRUE)
             ELSE /\ tspState' = TspResumed(tspState)
                  /\ TspNote("resume", FALSE)
    /\ UNCHANGED <<page, degVars, aliasVars, tspParams, toyVars, tapeVars>>

handleSpeedChange(speed) ==
    /\ page = "tsp"
    /\ edits < MaxEdits
    /\ tspState' = [tspState EXCEPT !.animationSpeed = speed]
    /\ TspNote("speed", FALSE)
    /\ UNCHANGED <<page, degVars, aliasVars, tspParams, toyVars, tapeVars>>

TspStepEv(s) ==
    [op |-> "step", moved |-> s.i # s.j, accepted |-> s.accepted]

\* a frame that finds the budget used up and leaves the state as it is
TspCompletedKeepsRunning(prevState) == prevState

\* return { ...prevState, isRunning: false }
TspCompleted(prevState) == [prevState EXCEPT !.isRunning = FALSE]

\* one frame of the animation loop (the effect runs only while isRunning)
TspAnimationFrame(di, dj, da) ==
    /\ page = "tsp"
    /\ tspState.isRunning
    /\ tspPrev' = tspState
    /\ IF tspState.iteration >= tspState.totalIterations
       THEN /\ tspState' = TspCompleted(tspState)
            /\ tspEv' = NoTspEv("completed")
            /\ tspRunLog' = tspRunLog
            /\ tspRunParams' = tspRunParams
       ELSE /\ tspState' = simulationStep(tspState, tspParams, di, dj, da)
            /\ tspEv' = TspStepEv(TspStepDetail(tspState, di, dj, da))
            /\ tspRunLog' = Append(tspRunLog, tspState'.iteration)
            /\ tspRunParams' = tspRunParams \cup {tspParams}
    /\ UNCHANGED <<page, degVars, aliasVars, tspParams, toyVars, tapeVars, edits>>

TspNext ==
    \/ \E site \in ClickSites(Len(tspState.cities)) : handleAddCity(site[1], site[2])
    \/ \E t \in TspTemperatures :
          handleParamsChange([tspParams EXCEPT !.initialTemperature = t])
    \/ \E c \in TspCoolingRates :
          handleParamsChange([tspParams EXCEPT !.coolingRate = c])
    \/ \E n \in TspIterations :
          handleParamsChange([tspParams EXCEPT !.totalIterations = n])
    \/ handleClearCities
    \/ \E ds \in DrawSeqs(Len(tspState.cities) - 2, Len(tspState.cities) - 2) :
          handleReset(ds)
    \/ \E count \in RandomCounts : \E newCities \in CityLists(count) :
          \E ds \in DrawSeqs(count - 2, count - 2) :
             handleRandomizeCities(newCities, ds)
    \/ handleStartStop
    \/ \E speed \in TspSpeeds : handleSpeedChange(speed)
    \/ \E di, dj, da \in Draws : TspAnimationFrame(di, dj, da)

(***************************************************************************)
(* SimulatedAnnealingToy page (the toy driver).                            *)
(***************************************************************************)
\* After mounting, the initialisation effect has run once on the defaults.
ToyInit ==
    /\ page = "toy"
    /\ TspIdle
    /\ AliasIdle
    /\ DegIdle
    /\ tape = <<>>
    /\ tapePos = 1
    /\ edits = 0
    /\ toyParams = DefaultToyParams
    /\ toyIsRunning = FALSE
    /\ toyPrev = getInitialToyState
    /\ toyEv = NoToyEv("mount")
    /\ toyRunLog = <<>>
    /\ toyRunParams = {}
    /\ \E d \in Draws :
          toyState = initializeToySimulation(DefaultToyParams, <<d>>, 1).v

\* an edit of params that stops the animation and leaves the state as it is
ToySetParamsKeepsState(op, newParams, d) ==
    /\ page = "toy"
    /\ edits < MaxEdits
    /\ edits' = edits + 1
    /\ toyParams' = newParams
    /\ toyIsRunning' = FALSE
    /\ toyPrev' = toyState
    /\ toyEv' = NoToyEv(op)
    /\ UNCHANGED <<page, degVars, aliasVars, tspVars, tapeVars, toyState, toyRunLog,
                   toyRunParams>>

\* Every edit of params stops the animation; params is a new object, so the
\* effect on [initializeSimulation] runs initializeToySimulation(params).
ToySetParams(op, newParams, d) ==
    /\ page = "toy"
    /\ edits < MaxEdits
    /\ edits' = edits + 1
    /\ toyParams' = newParams
    /\ toyIsRunning' = FALSE
    /\ toyState' = initializeToySimulation(newParams, <<d>>, 1).v
    /\ toyPrev' = toyState'
    /\ toyEv' = NoToyEv(op)
    /\ toyRunLog' = <<>>
    /\ toyRunParams' = {}
    /\ UNCHANGED <<page, degVars, aliasVars, tspVars, tapeVars>>

handleParamChange(key, value, d) ==
    ToySetParams("params", [toyParams EXCEPT ![key] = value], d)

handleCoefficientChange(index, value, d) ==
    /\ index < Len(toyParams.coefficients)
    /\ ToySetParams("coefficient",
                    [toyParams EXCEPT !.coefficients[index + 1] = value], d)

handleDegreeChange(newDegree, d) ==
    LET prev == toyParams.coefficients
        newCoefficients ==
            [i \in 1..(newDegree + 1) |-> IF i <= Len(prev) THEN prev[i] ELSE 0]
    IN  ToySetParams("degree", [toyParams EXCEPT !.coefficients = newCoefficients], d)

handleResetToy(d) == ToySetParams("reset", DefaultToyParams, d)

toggleAnimation ==
    /\ page = "toy"
    /\ toyIsRunning' = ~toyIsRunning
    /\ toyPrev' = toyState
    /\ toyEv' = NoToyEv(IF toyIsRunning THEN "pause" ELSE "resume")
    /\ UNCHANGED <<page, degVars, aliasVars, tspVars, toyState, toyParams, toyRunLog, toyRunParams, edits,
                   tapeVars>>

ToyStepEv(s) ==
    [op |-> "step", neighborState |-> s.neighborState,
     neighborValue |-> s.neighborValue, shouldAccept |-> s.shouldAccept]

\* one frame of the animation loop: ds are the draws the step consumes
ToyAnimationFrame(ds) ==
    /\ page = "toy"
    /\ toyIsRunning
    /\ IF ToyStepIsNoop(toyState, toyParams)
       THEN /\ ds = <<>>
            /\ toyState' = runSingleIteration(toyState, toyParams, ds, 1).v
            /\ toyEv' = NoToyEv("completed")
            /\ toyRunLog' = toyRunLog
            /\ toyRunParams' = toyRunParams
       ELSE /\ ToyStepDetail(toyState, toyParams, ds, 1).ok
            /\ ToyStepDetail(toyState, toyParams, ds, 1).pos = Len(ds) + 1
            /\ toyState' = runSingleIteration(toyState, toyParams, ds, 1).v
            /\ toyEv' = ToyStepEv(ToyStepDetail(toyState, toyParams, ds, 1))
            /\ toyRunLog' = Append(toyRunLog, toyState'.currentIteration)
            /\ toyRunParams' = toyRunParams \cup {toyParams}
    /\ toyIsRunning' = IF toyState'.isComplete THEN FALSE ELSE toyIsRunning
    /\ toyPrev' = toyState
    /\ UNCHANGED <<page, degVars, aliasVars, tspVars, toyParams, edits, tapeVars>>

ToyNext ==
    \/ \E d \in Draws : \E r \in ToyBitWidths : handleParamChange("r", r, d)
    \/ \E d \in Draws : \E n \in ToyIterations : handleParamChange("maxIterations", n, d)
    \/ \E d \in Draws : \E t \in ToyTemperatures :
          handleParamChange("initialTemperature", t, d)
    \/ \E d \in Draws : \E c \in ToyCoolingRates : handleParamChange("coolingRate", c, d)
    \/ \E d \in Draws : \E nt \in NeighborTypes : handleParamChange("neighborType", nt, d)
    \/ \E d \in Draws : \E cs \in CoolingSchedules :
          handleParamChange("coolingSchedule", cs, d)
    \/ \E d \in Draws : \E index \in 0..2 : \E value \in ToyCoefficientValues :
          handleCoefficientChange(index, value, d)
    \/ \E d \in Draws : \E degree \in ToyDegrees : handleDegreeChange(degree, d)
    \/ \E d \in Draws : handleResetToy(d)
    \/ toggleAnimation
    \/ \E ds \in DrawSeqs(0, MaxStepDraws) : ToyAnimationFrame(ds)

(***************************************************************************)
(* Harness for the batch run.  A tape of Math.random() values is fixed;    *)
(* initializeToySimulation and then runSingleIteration, step after step,   *)
(* read their draws from it, and runToySimulation is replayed on the same  *)
(* tape.  A step that would read past the end of the tape does not happen. *)
(***************************************************************************)
BatchParams ==
    {[DefaultToyParams EXCEPT !.r = r, !.maxIterations = n, !.neighborType = nt,
                              !.coolingSchedule = cs] :
        r \in {2}, n \in {1, MaxIter}, nt \in NeighborTypes,
        cs \in {"Geometric", "Linear"}}

BatchInit ==
    /\ page = "batch"
    /\ TspIdle
    /\ AliasIdle
    /\ DegIdle
    /\ toyParams \in BatchParams
    /\ toyIsRunning = FALSE
    /\ toyPrev = getInitialToyState
    /\ toyEv = NoToyEv("mount")
    /\ toyRunLog = <<>>
    /\ toyRunParams = {}
    /\ tape \in [1..TapeLen -> Draws]
    /\ tapePos = 2
    /\ edits = 0
    /\ toyState = initializeToySimulation(toyParams, tape, 1).v

BatchStep ==
    /\ page = "batch"
    /\ ~ToyStepIsNoop(toyState, toyParams)
    /\ ToyStepDetail(toyState, toyParams, tape, tapePos).ok
    /\ toyState' = runSingleIteration(toyState, toyParams, tape, tapePos).v
    /\ tapePos' = ToyStepDetail(toyState, toyParams, tape, tapePos).pos
    /\ toyPrev' = toyState
    /\ toyEv' = ToyStepEv(ToyStepDetail(toyState, toyParams, tape, tapePos))
    /\ toyRunLog' = Append(toyRunLog, toyState'.currentIteration)
    /\ toyRunParams' = toyRunParams \cup {toyParams}
    /\ UNCHANGED <<page, degVars, aliasVars, tspVars, toyParams, toyIsRunning, edits, tape>>

(***************************************************************************)
(* Harness for the degenerate bit-width.  The three entry points of the    *)
(* toy engine are called with params whose r is 0 or negative, the step on *)
(* the state the engine returned last.                                     *)
(***************************************************************************)
DegenerateBitWidths == {-1, 0}

DegenerateParams ==
    {[DefaultToyParams EXCEPT !.r = r, !.maxIterations = n, !.neighborType = nt] :
        r \in DegenerateBitWidths, n \in {1, MaxIter}, nt \in NeighborTypes}

DegenerateInit ==
    /\ page = "degenerate"
    /\ TspIdle
    /\ AliasIdle
    /\ ToyIdle
    /\ tape = <<>>
    /\ tapePos = 1
    /\ edits = 0
    /\ degParams \in DegenerateParams
    /\ bitsCall = NoBitsCall
    /\ degState = getInitialToyState
    /\ degOp = "none"

DegenerateInitialize(ds) ==
    /\ page = "degenerate"
    /\ initializeToySimulation(degParams, ds, 1).ok
    /\ degState' = initializeToySimulation(degParams, ds, 1).v
    /\ degOp' = "initializeToySimulation"
    /\ UNCHANGED <<page, tspVars, toyVars, tapeVars, edits, degParams, bitsCall, aliasVars>>

DegenerateRun(ds) ==
    /\ page = "degenerate"
    /\ runToySimulation(degParams, ds, 1).ok
    /\ degState' = runToySimulation(degParams, ds, 1).v
    /\ degOp' = "runToySimulation"
    /\ UNCHANGED <<page, tspVars, toyVars, tapeVars, edits, degParams, bitsCall, aliasVars>>

DegenerateStep(ds) ==
    /\ page = "degenerate"
    /\ runSingleIteration(degState, degParams, ds, 1).ok
    /\ degState' = runSingleIteration(degState, degParams, ds, 1).v
    /\ degOp' = "runSingleIteration"
    /\ UNCHANGED <<page, tspVars, toyVars, tapeVars, edits, degParams, bitsCall, aliasVars>>

DegenerateNext ==
    \/ \E ds \in DrawSeqs(0, 1) : DegenerateInitialize(ds)
    \/ \E ds \in DrawSeqs(0, 1) : DegenerateRun(ds)
    \/ \E ds \in DrawSeqs(1, 1) : DegenerateStep(ds)

(***************************************************************************)
(* AliasMethod page (the Alias driver).                                    *)
(***************************************************************************)
\* After mounting, the initialisation effect has run once on initialProbs.
AliasInit ==
    /\ page = "alias"
    /\ TspIdle
    /\ ToyIdle
    /\ DegIdle
    /\ tape = <<>>
    /\ tapePos = 1
    /\ edits = 0
    /\ aliasState = AliasMounted(initialProbs)
    /\ aliasPrev = AliasTablesOf(AliasInitialState)
    /\ aliasEv = NoAliasEv("mount")
    /\ aliasWeights = initialProbs
    /\ aliasTimers = <<>>

AliasNote(op, draws, outcomes) ==
    /\ aliasPrev' = AliasTablesOf(aliasState)
    /\ aliasEv' = [op |-> op, draws |-> draws, outcomes |-> outcomes]
    /\ UNCHANGED <<page, tspVars, toyVars, tapeVars, degVars>>

\* const newProbs = [...state.probs]; newProbs[index] = value
AliasNewProbs(state, index, value) == [state.probs EXCEPT ![index + 1] = value]

handleProbChange(index, value) ==
    /\ page = "alias"
    /\ edits < MaxEdits
    /\ edits' = edits + 1
    /\ aliasWeights' = AliasNewProbs(aliasState, index, value)
    /\ aliasState' = AliasRebuilt(aliasState,
                                  normalizeProbs(AliasNewProbs(aliasState, index, value)))
    /\ AliasNote("probChange", <<>>, <<>>)
    /\ UNCHANGED aliasTimers

\* onChange of the sample-size slider
handleSampleSizeChange(size) ==
    /\ page = "alias"
    /\ edits < MaxEdits
    /\ size # aliasState.sampleSize
    /\ edits' = edits + 1
    /\ aliasState' = [aliasState EXCEPT !.sampleSize = size]
    /\ AliasNote("sampleSize", <<>>, <<>>)
    /\ UNCHANGED <<aliasWeights, aliasTimers>>

handleResample(ds) ==
    /\ page = "alias"
    /\ Len(ds) = 2 * aliasState.sampleSize
    /\ aliasState' =
          [aliasState EXCEPT
              !.empiricalFrequencies =
                  AliasFrequencies(sample(aliasState.probTable, aliasState.aliasTable,
                                          aliasState.sampleSize, ds),
                                   Len(aliasState.probs), aliasState.sampleSize),
              !.highlightedItem = NoItem,
              !.animationPhase = "null",
              !.selectedBucket = NoItem,
              !.flipResult = "null"]
    /\ AliasNote("resample", <<>>,
                 sample(aliasState.probTable, aliasState.aliasTable,
                        aliasState.sampleSize, ds))
    /\ UNCHANGED <<aliasWeights, aliasTimers, edits>>

\* what handleSampleOne computes before it starts its timers
SampleOneBucket(state, d) == RandomInt(d, Len(state.probs))
SampleOneFlip(state, bucket, d) == RandomLess(d, state.probTable[bucket + 1])
SampleOneOutcome(state, bucket, flipResult) ==
    IF flipResult THEN bucket ELSE state.aliasTable[bucket + 1]

\* the chain of three timers one animated sample starts; phase is the phase
\* its next timer sets ("end" clears the animation)
AliasChain(phase, flipResult, outcome) ==
    [phase |-> phase, flipResult |-> flipResult, outcome |-> outcome]

\* handleSampleOne, with at most cap chains of timers pending afterwards
handleSampleOneUpTo(cap, dBucket, dCoin) ==
    /\ page = "alias"
    /\ ~aliasState.isAnimating
    /\ Len(aliasTimers) < cap
    /\ aliasState' =
          [aliasState EXCEPT
              !.isAnimating = TRUE,
              !.animationPhase = "bucket",
              !.selectedBucket = SampleOneBucket(aliasState, dBucket),
              !.flipResult = "null",
              !.highlightedItem = NoItem]
    /\ aliasTimers' =
          Append(aliasTimers,
                 AliasChain("flip",
                     SampleOneFlip(aliasState, SampleOneBucket(aliasState, dBucket), dCoin),
                     SampleOneOutcome(aliasState, SampleOneBucket(aliasState, dBucket),
                         SampleOneFlip(aliasState, SampleOneBucket(aliasState, dBucket),
                                       dCoin))))
    /\ AliasNote("sampleOne", <<dBucket, dCoin>>,
                 <<SampleOneOutcome(aliasState, SampleOneBucket(aliasState, dBucket),
                       SampleOneFlip(aliasState, SampleOneBucket(aliasState, dBucket),
                                     dCoin))>>)
    /\ UNCHANGED <<aliasWeights, edits>>

handleSampleOne(dBucket, dCoin) == handleSampleOneUpTo(MaxAnimations, dBucket, dCoin)

\* the state a timer of a chain sets
AliasTimerState(state, chain) ==
    CASE chain.phase = "flip" ->
            [state EXCEPT !.animationPhase = "flip",
                          !.flipResult = IF chain.flipResult THEN "true" ELSE "false"]
      [] chain.phase = "result" ->
            [state EXCEPT !.animationPhase = "result",
                          !.highlightedItem = chain.outcome]
      [] OTHER ->
            [state EXCEPT !.isAnimating = FALSE, !.animationPhase = "null",
                          !.selectedBucket = NoItem, !.flipResult = "null"]

\* the chains left once chain k has fired: its next timer is set, or it is over
AliasTimersAfter(timers, k) ==
    IF timers[k].phase = "end"
    THEN SubSeq(timers, 1, k - 1) \o SubSeq(timers, k + 1, Len(timers))
    ELSE [timers EXCEPT ![k].phase = IF timers[k].phase = "flip" THEN "result" ELSE "end"]

AliasPhaseRank(phase) ==
    CASE phase = "flip" -> 1 [] phase = "result" -> 2 [] OTHER -> 3

\* Timer k fires.  All delays are equal, so a chain started earlier has
\* fired its i-th timer before a later chain fires its i-th.
AliasTimerFires(k) ==
    /\ page = "alias"
    /\ k \in 1..Len(aliasTimers)
    /\ \A e \in 1..(k - 1) :
          AliasPhaseRank(aliasTimers[e].phase) > AliasPhaseRank(aliasTimers[k].phase)
    /\ aliasState' = AliasTimerState(aliasState, aliasTimers[k])
    /\ aliasTimers' = AliasTimersAfter(aliasTimers, k)
    /\ AliasNote(aliasTimers[k].phase, <<>>, <<>>)
    /\ UNCHANGED <<aliasWeights, edits>>

handleResetAlias ==
    /\ page = "alias"
    /\ aliasWeights' = initialProbs
    /\ aliasState' =
          [AliasRebuilt(aliasState, normalizeProbs(initialProbs)) EXCEPT
              !.sampleSize = DefaultSampleSize, !.isAnimating = FALSE]
    /\ AliasNote("reset", <<>>, <<>>)
    /\ UNCHANGED <<aliasTimers, edits>>

AliasNext ==
    \/ \E index \in 0..(Len(aliasState.probs) - 1) : \E value \in AliasSliderValues :
          handleProbChange(index, value)
    \/ \E size \in AliasSampleSizes : handleSampleSizeChange(size)
    \/ \E ds \in [1..(2 * aliasState.sampleSize) -> Draws] : handleResample(ds)
    \/ \E dBucket, dCoin \in Draws : handleSampleOne(dBucket, dCoin)
    \/ \E k \in 1..MaxAnimations : AliasTimerFires(k)
    \/ handleResetAlias

(***************************************************************************)
(* Harness for the table construction.  The page's initialisation runs on  *)
(* a weight vector drawn from small integers, and sample is called once on *)
(* the tables it built.                                                    *)
(***************************************************************************)
AliasWeightVectors == UNION {[1..n -> {Rat(w, 1) : w \in 0..MaxWeight}] : n \in 1..MaxOutcomes}

AliasTablesInit ==
    /\ page = "aliasTables"
    /\ TspIdle
    /\ ToyIdle
    /\ DegIdle
    /\ tape = <<>>
    /\ tapePos = 1
    /\ edits = 0
    /\ aliasWeights \in AliasWeightVectors
    /\ aliasState = AliasMounted(aliasWeights)
    /\ aliasPrev = AliasTablesOf(AliasInitialState)
    /\ aliasEv = NoAliasEv("mount")
    /\ aliasTimers = <<>>

\* one call of sample on the tables just built
AliasTablesSample(ds) ==
    /\ page = "aliasTables"
    /\ aliasEv.op = "mount"
    /\ Len(ds) % 2 = 0
    /\ aliasState' = aliasState
    /\ AliasNote("sample", ds,
                 sample(aliasState.probTable, aliasState.aliasTable, Len(ds) \div 2, ds))
    /\ UNCHANGED <<aliasWeights, aliasTimers, edits>>

AliasTablesNext == \E ds \in DrawSeqs(2, 2 * MaxSamples) : AliasTablesSample(ds)

(***************************************************************************)
(* Harness for the bit encoding.  intToBinaryArray is called once on a     *)
(* non-negative integer and a bit-width drawn from small sets.             *)
(***************************************************************************)
EncodeWidths == -1..MaxWidth
EncodeInputs == 0..(Pow(2, MaxWidth + 1) + 1)

EncodeInit ==
    /\ page = "encode"
    /\ TspIdle
    /\ ToyIdle
    /\ AliasIdle
    /\ tape = <<>>
    /\ tapePos = 1
    /\ edits = 0
    /\ degParams = DefaultToyParams
    /\ degState = getInitialToyState
    /\ degOp = "none"
    /\ \E n \in EncodeInputs, r \in EncodeWidths :
          bitsCall = [n |-> n, r |-> r, called |-> FALSE, out |-> <<>>]

EncodeCall ==
    /\ page = "encode"
    /\ ~bitsCall.called
    /\ bitsCall' = [bitsCall EXCEPT !.called = TRUE,
                                    !.out = intToBinaryArray(bitsCall.n, bitsCall.r)]
    /\ UNCHANGED <<page, tspVars, toyVars, tapeVars, edits, degParams, degState, degOp,
                   aliasVars>>

(***************************************************************************)
(* The pages and the harnesses together.                                    *)
(***************************************************************************)
Init ==
    \/ TspInit
    \/ ToyInit
    \/ BatchInit
    \/ DegenerateInit
    \/ AliasInit
    \/ AliasTablesInit
    \/ EncodeInit
Next ==
    \/ TspNext \/ ToyNext \/ BatchStep \/ DegenerateNext \/ AliasNext \/ AliasTablesNext
    \/ EncodeCall
Spec == Init /\ [][Next]_vars

(***************************************************************************)
(* Properties.                                                             *)
(***************************************************************************)
\* runToySimulation replayed on the harness's tape
BatchOnTape == runToySimulation(toyParams, tape, 1)

\* <<1, 2, ..., n>>
IterationIndices(n) == [k \in 1..n |-> k]

\* path has one entry for each city but the start city 0, each such city once
IsPermutation(path, cityCount) ==
    /\ Len(path) = cityCount - 1
    /\ {path[k] : k \in 1..Len(path)} = 1..(cityCount - 1)

RECURSIVE StrictDrops(_, _)
\* the number of records of history, from the k-th on, whose value is
\* strictly below the value of the record before
StrictDrops(history, k) ==
    IF k >= Len(history) THEN 0
    ELSE (IF history[k + 1].value < history[k].value THEN 1 ELSE 0)
         + StrictDrops(history, k + 1)

\* C1: step/batch equivalence of the toy engine.  When initializeToySimulation
\* and then maxIterations calls of runSingleIteration have run on a tape of
\* draws, runToySimulation on the same tape reads the same draws and returns
\* the same state, field for field.
StepBatchEquivalence ==
    (page = "batch" /\ toyState.currentIteration = toyParams.maxIterations) =>
        /\ BatchOnTape.ok
        /\ BatchOnTape.pos = tapePos
        /\ BatchOnTape.v = toyState

\* a run of MaxIter steps that accepted a worse neighbour and ended away from
\* its best state, equal to the batch run
StepBatchEquivalenceWitness ==
    /\ page = "batch"
    /\ toyParams.maxIterations = MaxIter
    /\ toyState.currentIteration = MaxIter
    /\ toyState.acceptedWorse > 0
    /\ toyState.bestState # toyState.currentState
    /\ BatchOnTape.v = toyState

\* C2: pause and resume neither skip nor double-count an iteration.  In both
\* drivers a pause and a resume leave every engine field as it was (the TSP
\* state changes in isRunning only), and the iteration indices executed since
\* the state was created are 1, 2, ..., up to the counter, each once.
PauseResumeKeepsCount ==
    /\ tspEv.op = "pause" => tspState = [tspPrev EXCEPT !.isRunning = FALSE]
    /\ tspEv.op = "resume" => tspState = [tspPrev EXCEPT !.isRunning = TRUE]
    /\ toyEv.op \in {"pause", "resume"} => toyState = toyPrev
    /\ tspRunLog = IterationIndices(tspState.iteration)
    /\ toyRunLog = IterationIndices(toyState.currentIteration)

\* a TSP run resumed in the middle, after its first iteration
PauseResumeKeepsCountWitness ==
    /\ tspEv.op = "resume"
    /\ tspState.iteration = 1
    /\ tspState.totalIterations = MaxIter
    /\ tspRunLog = <<1>>

\* C3: the best value is monotone.  A TSP step never increases bestDistance,
\* a toy step never decreases bestValue, and the bestValue fields of the toy
\* history never decrease from one record to the next.
BestIsMonotone ==
    /\ tspEv.op = "step" => tspState.bestDistance <= tspPrev.bestDistance
    /\ toyEv.op = "step" => toyState.bestValue >= toyPrev.bestValue
    /\ \A k \in 1..(Len(toyState.history) - 1) :
          toyState.history[k + 1].bestValue >= toyState.history[k].bestValue

\* a TSP step that accepted a longer tour than the best one
BestIsMonotoneWitness ==
    /\ tspEv.op = "step"
    /\ tspEv.accepted
    /\ tspState.currentDistance > tspPrev.bestDistance
    /\ tspState.bestDistance = tspPrev.bestDistance

\* C4: with three cities or more, currentPath and bestPath each hold every
\* city but the start city 0 exactly once.
PathsArePermutations ==
    Len(tspState.cities) >= 3 =>
        /\ IsPermutation(tspState.currentPath, Len(tspState.cities))
        /\ IsPermutation(tspState.bestPath, Len(tspState.cities))

\* a step that swapped two cities of a MaxCities tour and left the best tour behind
PathsArePermutationsWitness ==
    /\ tspEv.op = "step"
    /\ tspEv.moved
    /\ tspEv.accepted
    /\ Len(tspState.cities) = MaxCities
    /\ tspState.currentPath # tspPrev.currentPath
    /\ tspState.currentPath # tspState.bestPath

\* C5: the TSP step never stalls.  A step on three cities or more, below the
\* budget, adds one to iteration and appends one entry to distances, the cost
\* of the tour that is current after the step.
StepNeverStalls ==
    (tspEv.op = "step" /\ Len(tspPrev.cities) >= 3) =>
        /\ tspState.iteration = tspPrev.iteration + 1
        /\ Len(tspState.distances) = Len(tspPrev.distances) + 1
        /\ SubSeq(tspState.distances, 1, Len(tspPrev.distances)) = tspPrev.distances
        /\ tspState.distances[Len(tspState.distances)]
              = calculatePathDistance(tspState.cities, tspState.currentPath)

\* a second step of a run that drew the same position twice (i = j)
StepNeverStallsWitness ==
    /\ tspEv.op = "step"
    /\ ~tspEv.moved
    /\ tspState.iteration = MaxIter
    /\ tspState.currentPath = tspPrev.currentPath

\* C6: a toy step adds one to currentIteration, appends one record that
\* carries the new counter, and sets isComplete exactly when the new counter
\* has reached maxIterations.
ToyStepBookkeeping ==
    toyEv.op = "step" =>
        /\ toyState.currentIteration = toyPrev.currentIteration + 1
        /\ Len(toyState.history) = Len(toyPrev.history) + 1
        /\ SubSeq(toyState.history, 1, Len(toyPrev.history)) = toyPrev.history
        /\ toyState.history[Len(toyState.history)].iteration = toyState.currentIteration
        /\ toyState.isComplete <=> toyState.currentIteration >= toyParams.maxIterations

\* the first step of a run of MaxIter iterations on the page: not yet complete
ToyStepBookkeepingWitness ==
    /\ page = "toy"
    /\ toyEv.op = "step"
    /\ toyParams.maxIterations = MaxIter
    /\ toyState.currentIteration = 1
    /\ ~toyState.isComplete

\* C7: the counter stays within 0..maxIter in both engines, and a step on a
\* state whose counter has reached maxIter (toy: or whose isComplete is set)
\* returns the state with nothing changed but the terminal flag, whatever the
\* draws would have been.
IterationBounded ==
    /\ 0 <= tspState.iteration
    /\ tspState.iteration <= tspState.totalIterations
    /\ 0 <= toyState.currentIteration
    /\ toyState.currentIteration <= toyParams.maxIterations
    /\ tspState.iteration >= tspState.totalIterations =>
          \A di, dj, da \in Draws :
              simulationStep(tspState, tspParams, di, dj, da)
                  = [tspState EXCEPT !.isRunning = FALSE]
    /\ (toyState.currentIteration >= toyParams.maxIterations \/ toyState.isComplete) =>
          \A ds \in DrawSeqs(MaxStepDraws, MaxStepDraws) :
              runSingleIteration(toyState, toyParams, ds, 1).v
                  = [toyState EXCEPT !.isComplete = TRUE]

\* a TSP run stopped by the frame that found the budget of MaxIter used up
IterationBoundedWitness ==
    /\ tspEv.op = "completed"
    /\ Len(tspState.cities) >= 3
    /\ tspState.iteration = MaxIter
    /\ tspState.totalIterations = MaxIter
    /\ ~tspState.isRunning

\* C8: the accepted-worse counter.  A toy step adds one to acceptedWorse when
\* it accepted a neighbour of a value strictly below the current value, and
\* leaves it alone otherwise; so the counter is the number of strict drops of
\* value along the history, in the stepped state and in the batch run's alike.
AcceptedWorseCounts ==
    /\ toyEv.op = "step" =>
          toyState.acceptedWorse =
              toyPrev.acceptedWorse
              + (IF toyEv.shouldAccept /\ toyEv.neighborValue < toyPrev.currentValue
                 THEN 1 ELSE 0)
    /\ toyState.acceptedWorse = StrictDrops(toyState.history, 1)
    /\ (page = "batch" /\ BatchOnTape.ok) =>
          BatchOnTape.v.acceptedWorse = StrictDrops(BatchOnTape.v.history, 1)

\* a second worse neighbour accepted in a row
AcceptedWorseCountsWitness ==
    /\ toyEv.op = "step"
    /\ toyEv.shouldAccept
    /\ toyEv.neighborValue < toyPrev.currentValue
    /\ toyPrev.acceptedWorse = 1
    /\ toyState.acceptedWorse = 2

\* C9: the best is updated on strict improvement only.  A step changes the
\* best solution or value only when the value current after it is strictly
\* better than the best before it (toy: greater; TSP: an accepted tour that is
\* shorter), and then the best becomes the current one; on a tie the best
\* stays exactly as it was.
BestChangesOnStrictImprovementOnly ==
    /\ toyEv.op = "step" =>
          IF toyState.currentValue > toyPrev.bestValue
          THEN /\ toyState.bestState = toyState.currentState
               /\ toyState.bestValue = toyState.currentValue
          ELSE /\ toyState.bestState = toyPrev.bestState
               /\ toyState.bestValue = toyPrev.bestValue
    /\ tspEv.op = "step" =>
          IF tspEv.accepted /\ tspState.currentDistance < tspPrev.bestDistance
          THEN /\ tspState.bestPath = tspState.currentPath
               /\ tspState.bestDistance = tspState.currentDistance
          ELSE /\ tspState.bestPath = tspPrev.bestPath
               /\ tspState.bestDistance = tspPrev.bestDistance

\* a toy step that moved to another state of the best value: the best state stayed
BestChangesOnStrictImprovementOnlyWitness ==
    /\ toyEv.op = "step"
    /\ toyEv.shouldAccept
    /\ toyState.currentValue = toyPrev.bestValue
    /\ toyState.currentState # toyPrev.bestState
    /\ toyState.bestState = toyPrev.bestState

\* C10: an improvement is accepted whatever the draw.  A TSP candidate that
\* is strictly shorter than the current tour becomes the current tour for
\* every acceptance draw; a toy neighbour whose value is not below the current
\* value has acceptance probability 1, is accepted for every draw and becomes
\* the current state.
ImprovementAlwaysAccepted ==
    /\ (Len(tspState.cities) >= 3 /\ tspState.iteration < tspState.totalIterations) =>
          \A di, dj, da \in Draws :
              TspStepDetail(tspState, di, dj, da).newDistance
                    < calculatePathDistance(tspState.cities, tspState.currentPath)
              => /\ simulationStep(tspState, tspParams, di, dj, da).currentPath
                       = TspStepDetail(tspState, di, dj, da).newPath
                 /\ simulationStep(tspState, tspParams, di, dj, da).currentDistance
                       = TspStepDetail(tspState, di, dj, da).newDistance
    /\ (toyEv.op = "step" /\ toyEv.neighborValue >= toyPrev.currentValue) =>
          /\ toyState.history[Len(toyState.history)].acceptanceProbability = Rat(1, 1)
          /\ \A d \in Draws : ToyShouldAccept(d, Rat(1, 1))
          /\ toyEv.shouldAccept
          /\ toyState.currentState = toyEv.neighborState
          /\ toyState.currentValue = toyEv.neighborValue

\* a TSP step that took a strictly shorter tour
ImprovementAlwaysAcceptedWitness ==
    /\ tspEv.op = "step"
    /\ tspEv.accepted
    /\ tspState.currentDistance < tspPrev.currentDistance
    /\ tspState.currentPath # tspPrev.currentPath

\* the record the last toy step appended
LastRecord == toyState.history[Len(toyState.history)]

\* C11: the terminal-exploitation regime.  In a toy step whose temperature is
\* at most 1e-6 a strictly worse neighbour has acceptance probability 0 and is
\* not accepted; currentValue does not decrease and acceptedWorse stays.
UnderflowRejectsWorse ==
    (toyEv.op = "step" /\ LastRecord.temperature.n * 1000000 <= LastRecord.temperature.d) =>
        /\ toyEv.neighborValue < toyPrev.currentValue =>
              /\ LastRecord.acceptanceProbability = Rat(0, 1)
              /\ \A d \in Draws : ~ToyShouldAccept(d, LastRecord.acceptanceProbability)
              /\ ~toyEv.shouldAccept
              /\ toyState.currentState = toyPrev.currentState
        /\ toyState.currentValue >= toyPrev.currentValue
        /\ toyState.acceptedWorse = toyPrev.acceptedWorse

\* a step at a temperature below 1e-6 that turned a strictly worse neighbour down
UnderflowRejectsWorseWitness ==
    /\ toyEv.op = "step"
    /\ LastRecord.temperature.n * 1000000 <= LastRecord.temperature.d
    /\ toyEv.neighborValue < toyPrev.currentValue
    /\ ~toyEv.shouldAccept
    /\ toyState.currentValue = toyPrev.currentValue

\* C12: the temperature is a function of the iteration index.  Every toy
\* history record holds the schedule's value at the record's iteration, and
\* after a TSP step the state's temperature is T0 * rate^iteration for the
\* parameters in force, however the steps were split across pause and resume.
TemperatureFollowsSchedule ==
    /\ \A k \in 1..Len(toyState.history) :
          RatEq(toyState.history[k].temperature,
                calculateTemperature(toyState.history[k].iteration,
                    toyParams.initialTemperature, toyParams.coolingRate,
                    toyParams.maxIterations, toyParams.coolingSchedule))
    /\ tspEv.op = "step" =>
          RatEq(tspState.temperature,
                Rat(tspParams.initialTemperature.n
                        * Pow(tspParams.coolingRate.n, tspState.iteration),
                    tspParams.initialTemperature.d
                        * Pow(tspParams.coolingRate.d, tspState.iteration)))

\* C13: the parameters are immutable per run.  All the steps executed since
\* the state was initialised ran with one and the same params record, in both
\* drivers.
OneParamsRecordPerRun ==
    /\ Cardinality(tspRunParams) <= 1
    /\ Cardinality(toyRunParams) <= 1

\* what every handler and the step leave alone when there are fewer than
\* three cities: no run exists, none starts, none advances
NoRunBelowThreeCities ==
    /\ tspEv.op \in {"refused", "resetRefused"} =>
          /\ Len(tspState.cities) < 3
          /\ tspState = tspPrev
    /\ Len(tspState.cities) < 3 =>
          /\ ~tspState.isRunning
          /\ tspState.currentPath = <<>> /\ tspState.bestPath = <<>>
          /\ tspState.distances = <<>>
          /\ tspState.iteration = 0
          /\ tspState.temperature = Rat(0, 1)
          /\ \A di, dj, da \in Draws :
                simulationStep(tspState, tspParams, di, dj, da) = tspState

\* C14 as stated: with fewer than three cities initialize, start, reset and
\* step all leave the city list, the paths, the distance log, iteration and
\* temperature as they were, with isRunning false afterwards.
InsufficientCitiesLeaveAllAsIs ==
    /\ NoRunBelowThreeCities
    /\ Len(tspState.cities) < 3 =>
          /\ initializeSimulation(tspState.cities, tspParams, <<>>).cities
                = tspState.cities
          /\ ~initializeSimulation(tspState.cities, tspParams, <<>>).isRunning

\* C14, amended: with fewer than three cities start, reset and step leave
\* the state as it was, with isRunning false; initializeSimulation does not
\* keep the city list: it returns the blank initial state, whose city list is
\* empty.
InsufficientCitiesRefused ==
    /\ NoRunBelowThreeCities
    /\ Len(tspState.cities) < 3 =>
          initializeSimulation(tspState.cities, tspParams, <<>>) = getInitialState

\* a Reset turned down with two cities on the canvas
InsufficientCitiesRefusedWitness ==
    /\ tspEv.op = "resetRefused"
    /\ Len(tspState.cities) = 2
    /\ tspState = tspPrev
    /\ initializeSimulation(tspState.cities, tspParams, <<>>).cities # tspState.cities

\* C15: degenerate bit-width.  With r <= 0, whatever of initializeToySimulation,
\* runToySimulation and runSingleIteration (on the state returned last) has
\* been called, the state is the empty state: empty history, counter 0,
\* acceptedWorse 0, current state and value 0, best state 0 and best value
\* -Infinity.
DegenerateStateIsInert ==
    page = "degenerate" =>
        /\ degState.history = <<>>
        /\ degState.currentIteration = 0
        /\ degState.acceptedWorse = 0
        /\ degState.currentState = getInitialToyState.currentState
        /\ degState.currentValue = getInitialToyState.currentValue
        /\ degState.bestState = getInitialToyState.bestState
        /\ degState.bestValue = getInitialToyState.bestValue

\* the pages on which the Alias state is in use
AliasPages == {"alias", "aliasTables"}

RECURSIVE AliasMassUpTo(_, _, _, _)
\* the sum over the buckets j < k of the part of bucket j that yields outcome
\* i: probTable[j] when j = i, and 1 - probTable[j] when aliasTable[j] = i
AliasMassUpTo(probTable, aliasTable, i, k) ==
    IF k = 0 THEN Rat(0, 1)
    ELSE RatAdd(AliasMassUpTo(probTable, aliasTable, i, k - 1),
                RatAdd(IF k - 1 = i THEN probTable[k] ELSE Rat(0, 1),
                       IF aliasTable[k] = i
                       THEN RatSub(Rat(1, 1), probTable[k]) ELSE Rat(0, 1)))

\* the probability that one sample returns outcome i: each of the n buckets
\* is drawn with probability 1/n
AliasSampleProbability(probTable, aliasTable, i) ==
    RatDiv(AliasMassUpTo(probTable, aliasTable, i, Len(probTable)),
           Rat(Len(probTable), 1))

\* C17: Alias sampling reproduces the input distribution.  For the tables
\* createAliasTables built from the normalized probs p, the probability that a sample returns
\* i, (1/n) * (probTable[i] + the sum of 1 - probTable[j] over the j with
\* aliasTable[j] = i), is p[i] for every outcome i; and no sample, whatever
\* its two draws, returns an outcome whose probability is 0.
SamplingReproducesDistribution ==
    page \in AliasPages =>
        /\ \A i \in 0..(Len(aliasState.probs) - 1) :
              AliasSampleProbability(aliasState.probTable, aliasState.aliasTable, i)
                  = aliasState.probs[i + 1]
        /\ \A ds \in [1..2 -> Draws] :
              aliasState.probs[sample(aliasState.probTable, aliasState.aliasTable,
                                      1, ds)[1] + 1].n > 0
        /\ \A k \in 1..Len(aliasEv.outcomes) :
              aliasPrev.probs[aliasEv.outcomes[k] + 1].n > 0

\* on the page, the first weight set to 0 and an animated sample that drew
\* bucket 0: the outcome is the alias of the bucket
SamplingReproducesDistributionWitness ==
    /\ page = "alias"
    /\ aliasEv.op = "sampleOne"
    /\ aliasState.probs[1].n = 0
    /\ aliasState.selectedBucket = 0
    /\ aliasEv.outcomes[1] = aliasState.aliasTable[1]
    /\ aliasEv.outcomes[1] # 0

\* C18: Alias table ranges.  The tables built from the normalized probs have
\* one entry for each outcome, every probTable entry lies in [0, 1] and every
\* aliasTable entry is an index in [0, n); and no value that the construction
\* assigned to an entry of scaledProbs is negative.
TablesInRange ==
    page \in AliasPages =>
        /\ Len(aliasState.probs) >= 1
        /\ Len(aliasState.probTable) = Len(aliasState.probs)
        /\ Len(aliasState.aliasTable) = Len(aliasState.probs)
        /\ \A i \in 1..Len(aliasState.probTable) :
              /\ RatLeq(Rat(0, 1), aliasState.probTable[i])
              /\ RatLeq(aliasState.probTable[i], Rat(1, 1))
        /\ \A i \in 1..Len(aliasState.aliasTable) :
              aliasState.aliasTable[i] \in 0..(Len(aliasState.probs) - 1)
        /\ \A k \in 1..Len(AliasConstruction(aliasState.probs).written) :
              AliasConstruction(aliasState.probs).written[k].n >= 0

\* three weights 2, 1, 0 in the harness: one large entry is reduced to 0 and
\* becomes small, the other is reduced to 1 and is left on its worklist, with
\* probTable 1 and the alias 0 the table was filled with
TablesInRangeWitness ==
    /\ page = "aliasTables"
    /\ aliasWeights = <<Rat(2, 1), Rat(1, 1), Rat(0, 1)>>
    /\ Len(AliasConstruction(aliasState.probs).written) = 5
    /\ aliasState.probTable = <<Rat(1, 1), Rat(0, 1), Rat(0, 1)>>
    /\ aliasState.aliasTable = <<0, 0, 1>>

\* the sample rule: bucket j = floor(u * n) for the first draw u, and j when
\* the second draw r is below probTable[j], aliasTable[j] otherwise
SampleRule(probTable, aliasTable, dBucket, dCoin) ==
    IF dCoin * probTable[(dBucket * Len(probTable)) \div RandDen + 1].d
          < probTable[(dBucket * Len(probTable)) \div RandDen + 1].n * RandDen
    THEN (dBucket * Len(probTable)) \div RandDen
    ELSE aliasTable[(dBucket * Len(probTable)) \div RandDen + 1]

\* C19: Alias sample rule.  Every sample, of the batch loop and of the
\* animated single sample alike, draws a bucket j in [0, n) and a coin r and
\* is j when r < probTable[j] and aliasTable[j] otherwise; the outcome is an
\* index in [0, n).
SampleFollowsRule ==
    page \in AliasPages =>
        /\ \A dBucket, dCoin \in Draws :
              /\ (dBucket * Len(aliasState.probTable)) \div RandDen
                    \in 0..(Len(aliasState.probs) - 1)
              /\ sample(aliasState.probTable, aliasState.aliasTable, 1,
                        <<dBucket, dCoin>>)
                    = <<SampleRule(aliasState.probTable, aliasState.aliasTable,
                                   dBucket, dCoin)>>
              /\ SampleOneOutcome(aliasState, SampleOneBucket(aliasState, dBucket),
                     SampleOneFlip(aliasState, SampleOneBucket(aliasState, dBucket),
                                   dCoin))
                    = SampleRule(aliasState.probTable, aliasState.aliasTable,
                                 dBucket, dCoin)
        /\ aliasEv.op = "sample" =>
              /\ Len(aliasEv.outcomes) = Len(aliasEv.draws) \div 2
              /\ \A k \in 1..Len(aliasEv.outcomes) :
                    aliasEv.outcomes[k]
                        = SampleRule(aliasPrev.probTable, aliasPrev.aliasTable,
                                     aliasEv.draws[2 * k - 1], aliasEv.draws[2 * k])
        /\ aliasEv.op = "sampleOne" =>
              /\ aliasEv.outcomes
                    = <<SampleRule(aliasPrev.probTable, aliasPrev.aliasTable,
                                   aliasEv.draws[1], aliasEv.draws[2])>>
              /\ aliasState.selectedBucket
                    = (aliasEv.draws[1] * Len(aliasPrev.probTable)) \div RandDen
              /\ aliasTimers[Len(aliasTimers)].outcome = aliasEv.outcomes[1]
        /\ aliasEv.op = "resample" => Len(aliasEv.outcomes) = aliasState.sampleSize
        /\ \A k \in 1..Len(aliasEv.outcomes) :
              aliasEv.outcomes[k] \in 0..(Len(aliasState.probs) - 1)

\* a batch of MaxSamples samples in the harness, the first its bucket and the
\* last the alias of its bucket
SampleFollowsRuleWitness ==
    /\ page = "aliasTables"
    /\ aliasEv.op = "sample"
    /\ Len(aliasEv.outcomes) = MaxSamples
    /\ aliasEv.outcomes[1] = (aliasEv.draws[1] * Len(aliasState.probTable)) \div RandDen
    /\ aliasEv.outcomes[MaxSamples]
          # (aliasEv.draws[2 * MaxSamples - 1] * Len(aliasState.probTable)) \div RandDen

\* the events of the Alias driver that do not change the weights
AliasSamplingOps == {"sample", "sampleOne", "resample", "sampleSize", "flip", "result", "end"}

\* C20: Alias tables track the weights.  In every state of the driver after
\* the initial build, probTable and aliasTable are the tables built from the
\* current normalized probs; a weight change and a reset store the normalized
\* weights, rebuild both tables and set every empirical frequency to zero;
\* a sample, a batch resample and the timers of the animation leave probs,
\* probTable and aliasTable as they were.
TablesTrackWeights ==
    page \in AliasPages =>
        /\ aliasState.probTable = createAliasTables(aliasState.probs).probTable
        /\ aliasState.aliasTable = createAliasTables(aliasState.probs).aliasTable
        /\ aliasEv.op \in {"mount", "probChange", "reset"} =>
              /\ aliasState.probs = normalizeProbs(aliasWeights)
              /\ aliasState.empiricalFrequencies = AliasZeros(Len(aliasState.probs))
        /\ aliasEv.op \in AliasSamplingOps => AliasTablesOf(aliasState) = aliasPrev

\* a batch resample on the page after a slider was moved: frequencies are set
\* and the tables are those of the changed weights
TablesTrackWeightsWitness ==
    /\ page = "alias"
    /\ edits = 1
    /\ aliasEv.op = "resample"
    /\ aliasState.probs # normalizeProbs(initialProbs)
    /\ aliasState.empiricalFrequencies # AliasZeros(Len(aliasState.probs))
    /\ aliasState.probTable = createAliasTables(aliasState.probs).probTable
    /\ aliasState.probTable # createAliasTables(normalizeProbs(initialProbs)).probTable

\* c is a finished construction for n outcomes that returned the two tables
ConstructionLog(c, n, probTable, aliasTable) ==
    /\ c.iterations <= n - 1
    /\ Len(c.aliased) = c.iterations
    /\ Len(c.assigned) = n
    /\ \A i \in 0..(n - 1) :
          Cardinality({k \in 1..Len(c.assigned) : c.assigned[k].index = i}) = 1
    /\ \A k \in 1..Len(c.assigned) :
          probTable[c.assigned[k].index + 1] = c.assigned[k].value
    /\ \A k \in 1..Len(c.aliased) :
          /\ c.aliased[k].index = c.assigned[k].index
          /\ aliasTable[c.aliased[k].index + 1] = c.aliased[k].value

\* C21: Alias construction terminates.  For the normalized probs of length n
\* the pairing loop makes at most n - 1 passes; each pass assigns the
\* probTable and the aliasTable entry of one index popped from small, which
\* keep that value to the end; and on return every index has had its
\* probTable entry assigned exactly once.
ConstructionTerminates ==
    page \in AliasPages =>
        ConstructionLog(AliasConstruction(aliasState.probs), Len(aliasState.probs),
                        aliasState.probTable, aliasState.aliasTable)

\* the page's own weights: five outcomes paired in the largest number of
\* passes, four, and one index left on a worklist
ConstructionTerminatesWitness ==
    /\ page = "alias"
    /\ aliasState.probs = initialProbs
    /\ AliasConstruction(aliasState.probs).iterations = Len(aliasState.probs) - 1
    /\ Len(AliasLeftover(AliasLoop(AliasStart(aliasState.probs)))) = 1

\* the closed tour of a path: the start city 0, then the cities of the path
TourOf(path) == <<0>> \o path

\* the edges of a closed tour, the one from its last city back to its first included
TourEdges(tour) == [i \in 1..Len(tour) |-> <<tour[i], tour[(i % Len(tour)) + 1]>>]

RECURSIVE SumEdges(_, _, _)
\* the sum of the lengths of the first k edges
SumEdges(cities, edges, k) ==
    IF k = 0 THEN 0
    ELSE SumEdges(cities, edges, k - 1)
         + distance(CityAt(cities, edges[k][1]), CityAt(cities, edges[k][2]))

\* the tour started m cities later
RotateTour(tour, m) == SubSeq(tour, m + 1, Len(tour)) \o SubSeq(tour, 1, m)

\* the cities listed in the order of the tour, so that the tour visits them
\* as 0, 1, ..., k - 1
CitiesAlong(cities, tour) == [i \in 1..Len(tour) |-> CityAt(cities, tour[i])]

\* the orders in which the k - 1 cities other than the start can be visited
PathPermutations(k) ==
    {path \in [1..(k - 1) -> 1..(k - 1)] :
        \A a, b \in 1..(k - 1) : path[a] = path[b] => a = b}

\* C22: tour cost well-formedness.  For k >= 2 cities and every path that
\* is a permutation of the k - 1 cities other than the start,
\* calculatePathDistance is the sum of the lengths of exactly k edges, none
\* negative (start to path[0], the k - 2 edges between consecutive cities,
\* path[last] to start), and the tour started at any other of its cities has
\* the same cost.
TourCostWellFormed ==
    Len(tspState.cities) >= 2 =>
        \A path \in PathPermutations(Len(tspState.cities)) :
            /\ Len(TourEdges(TourOf(path))) = Len(tspState.cities)
            /\ TourEdges(TourOf(path))[1] = <<0, path[1]>>
            /\ TourEdges(TourOf(path))[Len(tspState.cities)] = <<path[Len(path)], 0>>
            /\ \A e \in 1..Len(tspState.cities) :
                  distance(CityAt(tspState.cities, TourEdges(TourOf(path))[e][1]),
                           CityAt(tspState.cities, TourEdges(TourOf(path))[e][2])) >= 0
            /\ calculatePathDistance(tspState.cities, path)
                  = SumEdges(tspState.cities, TourEdges(TourOf(path)),
                             Len(tspState.cities))
            /\ \A m \in 0..(Len(tspState.cities) - 1) :
                  calculatePathDistance(
                      CitiesAlong(tspState.cities, RotateTour(TourOf(path), m)),
                      PathIndices(Len(tspState.cities)))
                    = calculatePathDistance(tspState.cities, path)

\* a step on MaxCities cities that made a tour of another order and another
\* cost current
TourCostWellFormedWitness ==
    /\ tspEv.op = "step"
    /\ tspEv.accepted
    /\ Len(tspState.cities) = MaxCities
    /\ tspState.currentPath # PathIndices(MaxCities)
    /\ tspState.currentDistance = calculatePathDistance(tspState.cities, tspState.currentPath)
    /\ tspState.currentDistance # tspPrev.currentDistance
    /\ tspState.currentDistance > 0

RECURSIVE BitsValue(_, _)
\* the number whose binary digits are the first k entries of bits, the most
\* significant first
BitsValue(bits, k) ==
    IF k = 0 THEN 0 ELSE 2 * BitsValue(bits, k - 1) + bits[k]

\* bits is the r-bit array of n, most significant bit first
IsBitArrayOf(bits, n, r) ==
    /\ Len(bits) = r
    /\ \A i \in 1..Len(bits) : bits[i] \in {0, 1}
    /\ n = BitsValue(bits, Len(bits))
    /\ \A i \in 1..Len(bits) : bits[i] = (n \div Pow(2, r - i)) % 2

\* C23: BitString invariant.  In every toy state with r > 0, under every
\* neighbour strategy, currentState and bestState are integers in [0, 2^r);
\* the bit array of every history record has exactly r entries, is the
\* record's state most significant bit first and decodes to it through
\* binaryArrayToInt; and intToBinaryArray followed by binaryArrayToInt is the
\* identity on [0, 2^r).
BitStringInvariant ==
    toyParams.r > 0 =>
        /\ toyState.currentState \in 0..(Pow(2, toyParams.r) - 1)
        /\ toyState.bestState \in 0..(Pow(2, toyParams.r) - 1)
        /\ \A k \in 1..Len(toyState.history) :
              /\ toyState.history[k].state \in 0..(Pow(2, toyParams.r) - 1)
              /\ IsBitArrayOf(toyState.history[k].binaryRepresentation,
                              toyState.history[k].state, toyParams.r)
              /\ binaryArrayToInt(toyState.history[k].binaryRepresentation)
                    = toyState.history[k].state
        /\ \A n \in 0..(Pow(2, toyParams.r) - 1) :
              /\ IsBitArrayOf(intToBinaryArray(n, toyParams.r), n, toyParams.r)
              /\ binaryArrayToInt(intToBinaryArray(n, toyParams.r)) = n

\* a step with two bits that made state 1 current: its record holds 0, 1
BitStringInvariantWitness ==
    /\ toyEv.op = "step"
    /\ toyParams.r = 2
    /\ toyState.currentState = 1
    /\ toyPrev.currentState # 1
    /\ toyState.history[Len(toyState.history)].state = 1
    /\ toyState.history[Len(toyState.history)].binaryRepresentation = <<0, 1>>

\* the number of positions in which the r-bit representations of a and b differ
BitsApart(a, b, r) ==
    Cardinality({i \in 0..(r - 1) : (a \div Pow(2, i)) % 2 # (b \div Pow(2, i)) % 2})

\* the neighbours of state n for r bits, whatever the draws
FlipsOf(n, r) ==
    /\ \A ds \in DrawSeqs(1, 1) :
          /\ singleBitFlipNeighbor(n, r, ds, 1).ok
          /\ singleBitFlipNeighbor(n, r, ds, 1).v \in 0..(Pow(2, r) - 1)
          /\ BitsApart(singleBitFlipNeighbor(n, r, ds, 1).v, n, r) = 1
    /\ \A ds \in DrawSeqs(MaxStepDraws - 1, MaxStepDraws - 1) :
          /\ r < 2 => twoBitFlipNeighbor(n, r, ds, 1).v = n
          /\ (r >= 2 /\ twoBitFlipNeighbor(n, r, ds, 1).ok) =>
                /\ twoBitFlipNeighbor(n, r, ds, 1).v \in 0..(Pow(2, r) - 1)
                /\ BitsApart(twoBitFlipNeighbor(n, r, ds, 1).v, n, r) = 2

\* C24: bit-flip neighbours.  For every state in [0, 2^r) and every sequence
\* of draws, Single Bit Flip (r >= 1) returns a value whose r-bit
\* representation differs from the state's in exactly one position; Two Bit
\* Flip returns one that differs in exactly two positions when r >= 2 and
\* the state itself when r < 2.  So does every step taken.
BitFlipNeighbors ==
    toyParams.r >= 1 =>
        /\ (page \in {"toy", "batch"} /\ toyState.currentIteration = 0) =>
              \A n \in 0..(Pow(2, toyParams.r) - 1) : FlipsOf(n, toyParams.r)
        /\ (toyEv.op = "step" /\ toyParams.neighborType = "Single Bit Flip") =>
              BitsApart(toyEv.neighborState, toyPrev.currentState, toyParams.r) = 1
        /\ (toyEv.op = "step" /\ toyParams.neighborType = "Two Bit Flip") =>
              BitsApart(toyEv.neighborState, toyPrev.currentState, toyParams.r)
                  = IF toyParams.r >= 2 THEN 2 ELSE 0

\* a Two Bit Flip step on the tape that drew the same index twice, drew
\* again, and flipped both bits of a two-bit state
BitFlipNeighborsWitness ==
    /\ page = "batch"
    /\ toyEv.op = "step"
    /\ toyParams.neighborType = "Two Bit Flip"
    /\ toyParams.r = 2
    /\ toyState.currentIteration = 1
    /\ tapePos = 6
    /\ toyEv.neighborState = 3 - toyPrev.currentState

\* C25: a started run is an initialized run: whenever the simulator runs with
\* at least 3 cities, however they were entered, its iteration budget is
\* positive and its temperature is positive.
StartedRunIsInitialized ==
    (page = "tsp" /\ tspState.isRunning /\ Len(tspState.cities) >= 3) =>
        /\ tspState.totalIterations > 0
        /\ RatLess(Rat(0, 1), tspState.temperature)

\* C26: the step that raises the iteration counter to totalIterations marks
\* the run complete in that same step: the state it returns has
\* iteration = totalIterations and isRunning = FALSE.
FinalStepMarksComplete ==
    (page = "tsp" /\ tspEv.op = "step"
       /\ tspPrev.iteration < tspPrev.totalIterations
       /\ tspState.iteration = tspState.totalIterations) =>
        ~tspState.isRunning

\* sequence log starts with the sequence before
StartsWith(log, before) ==
    Len(log) >= Len(before) /\ SubSeq(log, 1, Len(before)) = before

\* C27: the run log is append-only and in step with the counter: once
\* initialized, distances has iteration + 1 entries and the toy history has
\* currentIteration + 1 records with history[i].iteration = i, whatever the
\* interleaving of steps, pauses, resumes and city edits; a step keeps every
\* entry already in the log.
RunLogInStepWithCounter ==
    /\ (page = "tsp" /\ Len(tspState.currentPath) > 0) =>
          Len(tspState.distances) = tspState.iteration + 1
    /\ (page = "tsp" /\ tspEv.op = "step") =>
          StartsWith(tspState.distances, tspPrev.distances)
    /\ (page \in {"toy", "batch"} /\ Len(toyState.history) > 0) =>
          /\ Len(toyState.history) = toyState.currentIteration + 1
          /\ \A i \in 0..toyState.currentIteration :
                toyState.history[i + 1].iteration = i
    /\ (page \in {"toy", "batch"} /\ toyEv.op = "step") =>
          StartsWith(toyState.history, toyPrev.history)

\* the positions (counted from 0) at which two paths of one length differ
PathChanges(before, after) ==
    {k \in 0..(Len(before) - 1) : before[k + 1] # after[k + 1]}

\* the positions a step may draw in the state, and those the last step swapped
TspSwapPositions ==
    {TspSwapPosition(tspState.cities, d) : d \in Draws}
    \cup (IF tspEv.op = "step"
          THEN PathChanges(tspPrev.currentPath, tspState.currentPath) ELSE {})

\* a state of the simulator on which simulationStep draws its two positions
TspStepDraws == page = "tsp" /\ Len(tspState.currentPath) > 0

\* C28 as stated: the swap positions i and j lie within [0, cityCount-2).
SwapPositionsBelowLast ==
    TspStepDraws =>
        TspSwapPositions \subseteq 0..(Len(tspState.cities) - 3)

\* C28: the swap positions i and j lie within [0, cityCount-1), the valid
\* indices of currentPath.
SwapPositionsInRange ==
    TspStepDraws =>
        /\ TspSwapPositions \subseteq 0..(Len(tspState.cities) - 2)
        /\ TspSwapPositions \subseteq 0..(Len(tspState.currentPath) - 1)

SwapPositionsInRangeWitness ==
    /\ page = "tsp"
    /\ tspEv.op = "step"
    /\ tspEv.accepted
    /\ Len(tspState.cities) = MaxCities
    /\ PathChanges(tspPrev.currentPath, tspState.currentPath)
          = {0, Len(tspState.cities) - 2}

(***************************************************************************)
(* The AliasMethod page alone, with room for a second chain of timers      *)
(* beside the one pending: the sample size stays at its default and one    *)
(* slider moves.                                                           *)
(***************************************************************************)
\* the sliders moved in this specification: the first one, to either end
OverlapSliders == {0}
OverlapSliderValues == {Rat(0, 1), Rat(1, 1)}

OverlapNext ==
    \/ \E index \in OverlapSliders : \E value \in OverlapSliderValues :
          handleProbChange(index, value)
    \/ \E ds \in [1..(2 * aliasState.sampleSize) -> Draws] : handleResample(ds)
    \/ \E dBucket, dCoin \in Draws : handleSampleOneUpTo(MaxOverlap, dBucket, dCoin)
    \/ \E k \in 1..MaxOverlap : AliasTimerFires(k)
    \/ handleResetAlias

OverlapSpec == AliasInit /\ [][OverlapNext]_vars

\* C29: at most one sample-one animation is in flight: a sample-one request
\* made while the timers of an earlier animation are pending is ignored, so
\* the timers pending at any moment belong to one animation.
OneAnimationInFlight ==
    page = "alias" => Len(aliasTimers) <= 1

\* C30: the animation phase protocol: whenever animationPhase is 'flip' the
\* selectedBucket and the flipResult of the sample are set, and whenever
\* animationPhase is not null isAnimating is true.
AnimationPhaseProtocol ==
    page = "alias" =>
        /\ aliasState.animationPhase = "flip" =>
              /\ aliasState.selectedBucket # NoItem
              /\ aliasState.flipResult # "null"
        /\ aliasState.animationPhase # "null" => aliasState.isAnimating

\* C31: the cached objective values agree with the solutions they describe:
\* once initialized, currentDistance is the tour cost of currentPath,
\* bestDistance the tour cost of bestPath and bestDistance <= currentDistance;
\* the toy's currentValue is f(currentState), bestValue is f(bestState) and
\* bestValue >= currentValue.
CachedValuesAgree ==
    /\ (page = "tsp" /\ Len(tspState.currentPath) > 0) =>
          /\ tspState.currentDistance
                = calculatePathDistance(tspState.cities, tspState.currentPath)
          /\ tspState.bestDistance
                = calculatePathDistance(tspState.cities, tspState.bestPath)
          /\ tspState.bestDistance <= tspState.currentDistance
    /\ (page \in {"toy", "batch"} /\ Len(toyState.history) > 0) =>
          /\ toyState.currentValue
                = evaluatePolynomial(toyState.currentState, toyParams.coefficients)
          /\ toyState.bestValue
                = evaluatePolynomial(toyState.bestState, toyParams.coefficients)
          /\ toyState.bestValue >= toyState.currentValue

CachedValuesAgreeWitness ==
    /\ page = "tsp"
    /\ tspEv.op = "step"
    /\ tspEv.accepted
    /\ tspState.currentPath # tspState.bestPath
    /\ tspState.currentDistance # tspPrev.currentDistance
    /\ tspState.bestDistance < tspState.currentDistance
    /\ tspState.currentDistance
          = calculatePathDistance(tspState.cities, tspState.currentPath)

\* the events of the toy page that change params
ToyParamEvents == {"params", "coefficient", "degree", "reset"}

\* state is a Ready state of params: what initializeToySimulation(params)
\* returns for some draw
ToyReadyUnder(state, params) ==
    \E d \in Draws : state = initializeToySimulation(params, <<d>>, 1).v

\* C32: a parameter change of the toy driver restarts the run: it stops the
\* animation and re-initializes the state to Ready under the new parameters
\* (currentIteration 0, one history record, acceptedWorse 0, isComplete
\* false), so the steps taken on a state all ran with the parameters the
\* state was initialized under.
ParamChangeRestartsRun ==
    page = "toy" =>
        /\ toyEv.op \in ToyParamEvents =>
              /\ ~toyIsRunning
              /\ toyState.currentIteration = 0
              /\ Len(toyState.history) = 1
              /\ toyState.acceptedWorse = 0
              /\ ~toyState.isComplete
              /\ ToyReadyUnder(toyState, toyParams)
        /\ toyRunParams \subseteq {toyParams}
        /\ ToyReadyUnder([toyState EXCEPT
                             !.history = SubSeq(toyState.history, 1, 1),
                             !.currentState = toyState.history[1].state,
                             !.currentValue = toyState.history[1].value,
                             !.bestState = toyState.history[1].state,
                             !.bestValue = toyState.history[1].value,
                             !.currentIteration = 0, !.acceptedWorse = 0,
                             !.isComplete = FALSE],
                         toyParams)

ParamChangeRestartsRunWitness ==
    /\ page = "toy"
    /\ toyEv.op = "step"
    /\ toyParams # DefaultToyParams
    /\ toyRunParams = {toyParams}
    /\ toyState.currentIteration = 1

(***************************************************************************)
(* The two annealing pages with a user who sets a run up and starts it,    *)
(* and neither pauses nor edits while it runs; the animation frames keep   *)
(* coming (requestAnimationFrame is requested again by every frame).       *)
(***************************************************************************)
RunInit == TspInit \/ ToyInit

RunNext ==
    \/ \E site \in ClickSites(Len(tspState.cities)) : handleAddCity(site[1], site[2])
    \/ \E n \in TspIterations :
          handleParamsChange([tspParams EXCEPT !.totalIterations = n])
    \/ \E ds \in DrawSeqs(Len(tspState.cities) - 2, Len(tspState.cities) - 2) :
          handleReset(ds)
    \/ \E count \in RandomCounts : \E newCities \in CityLists(count) :
          \E ds \in DrawSeqs(count - 2, count - 2) :
             handleRandomizeCities(newCities, ds)
    \/ ~tspState.isRunning /\ handleStartStop
    \/ \E di, dj, da \in Draws : TspAnimationFrame(di, dj, da)
    \/ \E d \in Draws : \E n \in ToyIterations :
          ~toyIsRunning /\ handleParamChange("maxIterations", n, d)
    \/ \E d \in Draws : \E nt \in NeighborTypes :
          ~toyIsRunning /\ handleParamChange("neighborType", nt, d)
    \/ \E d \in Draws : \E cs \in CoolingSchedules :
          ~toyIsRunning /\ handleParamChange("coolingSchedule", cs, d)
    \/ ~toyIsRunning /\ toggleAnimation
    \/ \E ds \in DrawSeqs(0, MaxStepDraws) : ToyAnimationFrame(ds)

\* one frame of the animation loop of the page
RunFrame ==
    \/ \E di, dj, da \in Draws : TspAnimationFrame(di, dj, da)
    \/ \E ds \in DrawSeqs(0, MaxStepDraws) : ToyAnimationFrame(ds)

RunSpec == RunInit /\ [][RunNext]_vars /\ WF_vars(RunFrame)

\* a run of the budget in the state has just been started from an
\* initialized state
RunStarted ==
    \/ /\ page = "tsp"
       /\ tspState.isRunning
       /\ Len(tspState.currentPath) > 0
       /\ tspState.totalIterations > 0
       /\ tspState.iteration = 0
    \/ /\ page = "toy"
       /\ toyIsRunning
       /\ Len(toyState.history) > 0
       /\ toyParams.maxIterations > 0
       /\ toyState.currentIteration = 0
       /\ ~toyState.isComplete

\* the run is over after exactly as many steps as the budget, and the loop
\* has stopped
RunOver ==
    \/ /\ page = "tsp"
       /\ ~tspState.isRunning
       /\ tspState.iteration = tspState.totalIterations
       /\ Len(tspRunLog) = tspState.totalIterations
    \/ /\ page = "toy"
       /\ ~toyIsRunning
       /\ toyState.isComplete
       /\ toyState.currentIteration = toyParams.maxIterations
       /\ Len(toyRunLog) = toyParams.maxIterations

\* C33: runs terminate: while the frames keep firing and the user neither
\* pauses nor edits, a run started from an initialized state with maxIter > 0
\* reaches iteration = maxIter after exactly maxIter steps, and then the
\* driver has stopped stepping (isRunning false; the toy also isComplete).
RunsTerminate == RunStarted ~> RunOver

RunsTerminateWitness ==
    /\ RunOver
    /\ page = "tsp"
    /\ tspState.totalIterations = MaxIter
    /\ tspEv.op = "completed"
    /\ tspPrev.isRunning

\* the fields of the TSP state an edit or a step may change
TspRunFields(state) ==
    <<state.cities, state.currentPath, state.bestPath, state.distances,
      state.temperature, state.iteration>>

\* C34: edits are locked out while running: from a state whose isRunning is
\* true, the city list, the paths, the distance log, the temperature and the
\* iteration change only through simulationStep; add-city, clear, reset and
\* randomize requests change nothing until the run is paused or completes.
EditsLockedOutWhileRunning ==
    [][(page = "tsp" /\ tspState.isRunning) =>
          \/ TspRunFields(tspState') = TspRunFields(tspState)
          \/ \E di, dj, da \in Draws :
                tspState' = simulationStep(tspState, tspParams, di, dj, da)]_vars

EditsLockedOutWhileRunningWitness ==
    /\ page = "tsp"
    /\ tspState.isRunning
    /\ tspEv.op = "step"
    /\ Len(tspState.cities) < MaxCities
    /\ edits < MaxEdits
    /\ ~ENABLED (\E site \in ClickSites(Len(tspState.cities)) :
                    handleAddCity(site[1], site[2]))
    /\ ~ENABLED handleClearCities
    /\ ~ENABLED (\E ds \in DrawSeqs(Len(tspState.cities) - 2, Len(tspState.cities) - 2) :
                    handleReset(ds))
    /\ ~ENABLED (\E count \in RandomCounts : \E newCities \in CityLists(count) :
                    \E ds \in DrawSeqs(count - 2, count - 2) :
                       handleRandomizeCities(newCities, ds))

\* the fields simulationStep never writes, whatever the candidate
TspStepKeeps(state) ==
    <<state.cities, state.totalIterations, state.isRunning, state.animationSpeed>>

\* the fields only an accepted candidate changes
TspSolutionFields(state) ==
    <<state.currentPath, state.bestPath, state.currentDistance, state.bestDistance>>

\* C35: the frame of a TSP step: a step whose candidate is rejected or whose
\* positions are equal leaves cities, currentPath, bestPath, currentDistance,
\* bestDistance, totalIterations, isRunning and animationSpeed as they were
\* and changes only distances (one entry appended), temperature and
\* iteration; an accepted step also changes currentPath and currentDistance
\* and, on strict improvement only, bestPath and bestDistance.
StepFrame ==
    (page = "tsp" /\ tspEv.op = "step") =>
        /\ TspStepKeeps(tspState) = TspStepKeeps(tspPrev)
        /\ Len(tspState.distances) = Len(tspPrev.distances) + 1
        /\ SubSeq(tspState.distances, 1, Len(tspPrev.distances)) = tspPrev.distances
        /\ tspState.iteration = tspPrev.iteration + 1
        /\ ~tspEv.accepted => TspSolutionFields(tspState) = TspSolutionFields(tspPrev)
        /\ (tspEv.accepted /\ tspState.currentDistance >= tspPrev.bestDistance) =>
              /\ tspState.bestPath = tspPrev.bestPath
              /\ tspState.bestDistance = tspPrev.bestDistance
        /\ (tspEv.accepted /\ tspState.currentDistance < tspPrev.bestDistance) =>
              /\ tspState.bestPath = tspState.currentPath
              /\ tspState.bestDistance = tspState.currentDistance

StepFrameWitness ==
    /\ page = "tsp"
    /\ tspEv.op = "step"
    /\ tspEv.moved
    /\ ~tspEv.accepted
    /\ tspState.iteration = MaxIter
    /\ tspState.currentPath = tspPrev.currentPath
    /\ Len(tspState.distances) = MaxIter + 1

\* C36: intToBinaryArray(n, r) with r > 0 returns exactly r bits for every
\* non-negative integer n, the bits of n clamped to [0, 2^r - 1], and returns
\* the empty array when r <= 0.
IntToBinaryArrayClamps ==
    (page = "encode" /\ bitsCall.called) =>
        IF bitsCall.r <= 0 THEN bitsCall.out = <<>>
        ELSE /\ Len(bitsCall.out) = bitsCall.r
             /\ \A k \in 1..Len(bitsCall.out) : bitsCall.out[k] \in {0, 1}
             /\ binaryArrayToInt(bitsCall.out)
                   = Min(bitsCall.n, Pow(2, bitsCall.r) - 1)

====
